---------------------------- MODULE Spec2Model ----------------------------
(***************************************************************************)
(* Pipelined execution of crossbar stages over shared objects              *)
(* (src/src/pipeline.py).  A pipeline is built from stages whose           *)
(* operations access objects through index relations; stages are ticked    *)
(* in lockstep, their external writes are buffered and flushed once every  *)
(* stage has ticked, and a reader stage is gated by per-object watermarks  *)
(* (obj_max_iter) advanced by the flushed writes.                          *)
(*                                                                         *)
(* Python values: None is the string "None" where the other values are     *)
(* strings (names, errors) and the empty tuple Nil where they are tuples,  *)
(* records or numbers, a number n that may be None being kept as <<n>>;    *)
(* an index tuple is a sequence of integers; a numpy array is a function   *)
(* from the index tuples of its shape to integers; a dict is a sequence of *)
(* entries (insertion order) or a function (where only lookup matters).    *)
(***************************************************************************)
EXTENDS Integers, Sequences, FiniteSets, TLC

None == "None"
Nil == <<>>

(***************************************************************************)
(* State.  pline is the Pipeline object; pc and todo are the position of   *)
(* the running tick() call: the stages it still has to tick.  twin is a    *)
(* second Pipeline object built and set up like pline.  scan is a          *)
(* StageInfo under construction: the accesses still to visit, those        *)
(* visited and the three object sets.                                      *)
(***************************************************************************)
VARIABLES pline, pc, todo, twin, scan

vars == <<pline, pc, todo, twin, scan>>

(***************************************************************************)
(* Bounds of the model.                                                    *)
(***************************************************************************)
\* accesses of a stage whose construction is followed access by access
MaxAcc == 3
\* iterations of the first stage of the two-stage pipelines
NIter == 3
\* passes a stage with no loop_inp_limit is followed for
MaxPass == 2
\* seed values and weights range over 0..MaxVal
MaxVal == 1

(***************************************************************************)
(* Sequences and tuples.                                                   *)
(***************************************************************************)
Range(s) == {s[i] : i \in DOMAIN s}

RECURSIVE SumSeq(_)
SumSeq(s) == IF s = <<>> THEN 0 ELSE Head(s) + SumSeq(Tail(s))

Min2(a, b) == IF a <= b THEN a ELSE b

IsPrefix(s, t) == Len(s) <= Len(t) /\ SubSeq(t, 1, Len(s)) = s

\* Python's tuple comparison a < b
RECURSIVE LexLess(_, _)
LexLess(a, b) ==
    IF b = <<>> THEN FALSE
    ELSE IF a = <<>> THEN TRUE
    ELSE IF Head(a) # Head(b) THEN Head(a) < Head(b)
    ELSE LexLess(Tail(a), Tail(b))

\* Python's tuple comparison a <= b
LexLeq(a, b) == a = b \/ LexLess(a, b)

\* the greatest tuple of a non-empty set
LexMax(S) == CHOOSE x \in S : \A y \in S : LexLeq(y, x)

(***************************************************************************)
(* Relations.  A relation is a finite set of <<idx, loc>> pairs; the       *)
(* generated enumerator (isl_map_to_pyfn) yields its pairs in the          *)
(* lexicographic order of idx followed by loc.                             *)
(***************************************************************************)
RECURSIVE RelEnum(_)
RelEnum(rel) ==
    IF rel = {} THEN <<>>
    ELSE LET m == CHOOSE x \in rel :
                    \A y \in rel : LexLeq(x[1] \o x[2], y[1] \o y[2])
         IN  <<m>> \o RelEnum(rel \ {m})

\* rel_a_iter: group the locations of one iteration index into a list
RECURSIVE rel_a_iter(_)
rel_a_iter(pairs) ==
    IF pairs = <<>> THEN <<>>
    ELSE LET rest == rel_a_iter(Tail(pairs))
             idx == Head(pairs)[1]
             loc == Head(pairs)[2]
         IN  IF rest # <<>> /\ Head(rest)[1] = idx
             THEN <<(<<idx, <<loc>> \o Head(rest)[2]>>)>> \o Tail(rest)
             ELSE <<(<<idx, <<loc>>>>)>> \o rest

RelDomain(rel) == {x[1] : x \in rel}


(***************************************************************************)
(* StageInfo: classification of the objects a stage touches.               *)
(* An access is [a_ty, obj, rel]; an operation is [op_ty, stage,           *)
(* accesses].                                                              *)
(***************************************************************************)
SIEmpty == [ro_objs |-> {}, wo_objs |-> {}, rw_objs |-> {}, err |-> None]

\* one turn of the loop over the accesses (StageInfo.__init__)
SIStep(si, acc) ==
    LET objname == acc.obj IN
    IF si.err # None THEN si
    ELSE IF acc.a_ty = "RD" THEN
        IF objname \in si.wo_objs
        THEN [si EXCEPT !.wo_objs = @ \ {objname}, !.rw_objs = @ \cup {objname}]
        ELSE IF objname \in si.ro_objs THEN si
        ELSE IF objname \in si.rw_objs THEN si
        ELSE [si EXCEPT !.ro_objs = @ \cup {objname}]
    ELSE IF acc.a_ty = "WR" THEN
        IF objname \in si.wo_objs THEN [si EXCEPT !.err = "ValueError"]
        ELSE IF objname \in si.ro_objs THEN [si EXCEPT !.err = "ValueError"]
        ELSE [si EXCEPT !.wo_objs = @ \cup {objname}]
    ELSE si

RECURSIVE SIScan(_, _)
SIScan(si, accs) ==
    IF accs = <<>> THEN si ELSE SIScan(SIStep(si, Head(accs)), Tail(accs))

\* the accesses of all operations, in the order the scan visits them
RECURSIVE AllAccesses(_)
AllAccesses(ops) ==
    IF ops = <<>> THEN <<>> ELSE Head(ops).accesses \o AllAccesses(Tail(ops))

\* StageInfo(ops) without the check of the first operation's type
StageInfo_any_first_op(ops) ==
    IF Len(ops) = 0 THEN [SIEmpty EXCEPT !.err = "ValueError"]
    ELSE IF \E i \in DOMAIN ops : ops[i].stage # ops[1].stage
         THEN [SIEmpty EXCEPT !.err = "AssertionError"]
    ELSE SIScan(SIEmpty, AllAccesses(ops))

\* StageInfo(ops): the checks on the operation list, then the scan
StageInfo(ops) ==
    IF Len(ops) = 0 THEN [SIEmpty EXCEPT !.err = "ValueError"]
    ELSE IF ops[1].op_ty # "MxV" THEN [SIEmpty EXCEPT !.err = "ValueError"]
    ELSE IF \E i \in DOMAIN ops : ops[i].stage # ops[1].stage
         THEN [SIEmpty EXCEPT !.err = "AssertionError"]
    ELSE SIScan(SIEmpty, AllAccesses(ops))

rd_accesses(op) == SelectSeq(op.accesses, LAMBDA a : a.a_ty = "RD")
wr_accesses(op) == SelectSeq(op.accesses, LAMBDA a : a.a_ty = "WR")

\* get_obj_rd_rel: the union of the read relations of the stage on objname
get_obj_rd_rel(ops, objname) ==
    UNION {a.rel : a \in {x \in Range(AllAccesses(ops)) :
                              x.a_ty = "RD" /\ x.obj = objname}}

\* get_obj_wr_rel: the relation of the single write access on objname
get_obj_wr_rel(ops, objname) ==
    UNION {a.rel : a \in {x \in Range(AllAccesses(ops)) :
                              x.a_ty = "WR" /\ x.obj = objname}}

(***************************************************************************)
(* The watermark relation of one reader/writer pair: a written location    *)
(* maps to the greatest reader iteration i such that every reader          *)
(* iteration up to i reads only locations the writer has written by then.  *)
(***************************************************************************)
WriterIters(wr_a, rd_a, i) ==
    {j \in RelDomain(wr_a) :
        \E loc \in {x[2] : x \in rd_a} :
            <<i, loc>> \in rd_a /\ <<j, loc>> \in wr_a}

SupportedIters(wr_a, rd_a, j) ==
    {i \in RelDomain(rd_a) :
        \A i2 \in RelDomain(rd_a) :
            LexLeq(i2, i) =>
                \A j2 \in WriterIters(wr_a, rd_a, i2) : LexLeq(j2, j)}

isl_rel_loc_to_max_iter(wr_a, rd_a) ==
    {<<x[2], LexMax(SupportedIters(wr_a, rd_a, x[1]))>> :
        x \in {y \in wr_a : SupportedIters(wr_a, rd_a, y[1]) # {}}}

(***************************************************************************)
(* The pipelines the model builds.                                         *)
(***************************************************************************)
KSize == 3
PadSize == 1

\* iteration o reads the k locations o .. o+k-1 (a windowed read)
Window(n, k) ==
    {x \in {<<(<<o>>), (<<j>>)>> : o \in 0..(n - 1), j \in 0..(n + k - 2)} :
        x[1][1] <= x[2][1] /\ x[2][1] <= x[1][1] + k - 1}

\* iteration o accesses the one location o+p
Shift(n, p) == {<<(<<o>>), (<<o + p>>)>> : o \in 0..(n - 1)}

\* iteration o accesses the one location n-1-o
Reverse(n) == {<<(<<o>>), (<<n - 1 - o>>)>> : o \in 0..(n - 1)}

\* the single iteration 0 accesses every location 0 .. n-1
Whole(n) == {<<(<<0>>), (<<j>>)>> : j \in 0..(n - 1)}

\* iteration o accesses the two locations 2o and 2o+1
Pairs(n) == {<<(<<o>>), (<<2 * o + j>>)>> : o \in 0..(n - 1), j \in 0..1}

\* every iteration accesses every location 0 .. n-1
All(n) == {<<(<<o>>), (<<j>>)>> : o \in 0..(n - 1), j \in 0..(n - 1)}

RD_a(obj, rel) == [a_ty |-> "RD", obj |-> obj, rel |-> rel]
WR_a(obj, rel) == [a_ty |-> "WR", obj |-> obj, rel |-> rel]
OpInfo(op_ty, stage, accesses) ==
    [op_ty |-> op_ty, stage |-> stage, accesses |-> accesses]

\* test_mxv: one stage, y = M x over whole objects
PipeMxV ==
    [name |-> "mxv",
     stages |-> << <<OpInfo("MxV", "S", <<RD_a("x", Whole(NIter)),
                                          WR_a("y", Whole(NIter))>>)>> >>,
     objs_info |-> [x |-> <<NIter>>, y |-> <<NIter>>]]

\* test_conv1d / test_conv2d_conv2d in one dimension: S1 feeds S2 through
\* the padded object in2; out has no reader
PipeConv ==
    [name |-> "conv",
     stages |-> <<
        <<OpInfo("MxV", "S1", <<RD_a("in1", Window(NIter, KSize)),
                                WR_a("in2", Shift(NIter, PadSize))>>)>>,
        <<OpInfo("MxV", "S2", <<RD_a("in2", Window(NIter, KSize)),
                                WR_a("out", Shift(NIter, 0))>>)>> >>,
     objs_info |-> [in1 |-> <<NIter + KSize - 1>>,
                    in2 |-> <<NIter + 2 * PadSize>>,
                    out |-> <<NIter>>]]

\* S1 writes in2 from its last location down, S2 reads it the same way
PipeRev ==
    [name |-> "rev",
     stages |-> <<
        <<OpInfo("MxV", "S1", <<RD_a("in1", Shift(NIter, 0)),
                                WR_a("in2", Reverse(NIter))>>)>>,
        <<OpInfo("MxV", "S2", <<RD_a("in2", Reverse(NIter)),
                                WR_a("out", Shift(NIter, 0))>>)>> >>,
     objs_info |-> [in1 |-> <<NIter>>, in2 |-> <<NIter>>, out |-> <<NIter>>]]

\* test_residual_1d: S1 writes O1 and O2; S2 keeps O3 internal and adds
PipeResidual ==
    [name |-> "residual",
     stages |-> <<
        <<OpInfo("MxV", "S1", <<RD_a("IN", Window(NIter, KSize)),
                                WR_a("O1", Shift(NIter, PadSize)),
                                WR_a("O2", Shift(NIter, 0))>>)>>,
        <<OpInfo("MxV", "S2", <<RD_a("O1", Window(NIter, KSize)),
                                WR_a("O3", Shift(NIter, 0))>>),
          OpInfo("ADD", "S2", <<RD_a("O2", Shift(NIter, 0)),
                                RD_a("O3", Shift(NIter, 0)),
                                WR_a("OUT", Shift(NIter, 0))>>)>> >>,
     objs_info |-> [IN |-> <<NIter + KSize - 1>>,
                    O1 |-> <<NIter + 2 * PadSize>>,
                    O2 |-> <<NIter>>, O3 |-> <<NIter>>, OUT |-> <<NIter>>]]

\* three stages in a row: S1 feeds S2 through in2, S2 feeds S3 through in3
PipeChain ==
    [name |-> "chain",
     stages |-> <<
        <<OpInfo("MxV", "S1", <<RD_a("in1", Window(NIter, KSize)),
                                WR_a("in2", Shift(NIter, PadSize))>>)>>,
        <<OpInfo("MxV", "S2", <<RD_a("in2", Window(NIter, KSize)),
                                WR_a("in3", Shift(NIter, 0))>>)>>,
        <<OpInfo("MxV", "S3", <<RD_a("in3", Shift(NIter, 0)),
                                WR_a("out", Shift(NIter, 0))>>)>> >>,
     objs_info |-> [in1 |-> <<NIter + KSize - 1>>,
                    in2 |-> <<NIter + 2 * PadSize>>,
                    in3 |-> <<NIter>>,
                    out |-> <<NIter>>]]

\* one stage, all of its objects external: y = M x, then z = b + c
PipeAdd ==
    [name |-> "add",
     stages |-> <<
        <<OpInfo("MxV", "S", <<RD_a("x", Shift(NIter, 0)),
                               WR_a("y", Shift(NIter, 0))>>),
          OpInfo("ADD", "S", <<RD_a("b", Shift(NIter, 0)),
                               RD_a("c", Shift(NIter, 0)),
                               WR_a("z", Shift(NIter, 0))>>)>> >>,
     objs_info |-> [x |-> <<NIter>>, y |-> <<NIter>>, b |-> <<NIter>>,
                    c |-> <<NIter>>, z |-> <<NIter>>]]

\* one stage whose ADD has one read access: y = M x, then z from b alone
PipeArity ==
    [name |-> "arity",
     stages |-> <<
        <<OpInfo("MxV", "S", <<RD_a("x", Shift(NIter, 0)),
                               WR_a("y", Shift(NIter, 0))>>),
          OpInfo("ADD", "S", <<RD_a("b", Shift(NIter, 0)),
                               WR_a("z", Shift(NIter, 0))>>)>> >>,
     objs_info |-> [x |-> <<NIter>>, y |-> <<NIter>>, b |-> <<NIter>>,
                    z |-> <<NIter>>]]

\* S1 writes in2 one location below its iteration, S2 reads it the same
\* way: iteration 0 of either stage accesses in2 at index -1
PipeNeg ==
    [name |-> "neg",
     stages |-> <<
        <<OpInfo("MxV", "S1", <<RD_a("in1", Shift(NIter, 0)),
                                WR_a("in2", Shift(NIter, -1))>>)>>,
        <<OpInfo("MxV", "S2", <<RD_a("in2", Shift(NIter, -1)),
                                WR_a("out", Shift(NIter, 0))>>)>> >>,
     objs_info |-> [in1 |-> <<NIter>>, in2 |-> <<NIter>>, out |-> <<NIter>>]]

\* S1 writes two locations of in2 in every iteration, S2 reads them in one
PipeWide ==
    [name |-> "wide",
     stages |-> <<
        <<OpInfo("MxV", "S1", <<RD_a("in1", Shift(NIter, 0)),
                                WR_a("in2", Pairs(NIter))>>)>>,
        <<OpInfo("MxV", "S2", <<RD_a("in2", Pairs(NIter)),
                                WR_a("out", Shift(NIter, 0))>>)>> >>,
     objs_info |-> [in1 |-> <<NIter>>, in2 |-> <<2 * NIter>>, out |-> <<NIter>>]]

\* S1 writes in2 one location per iteration, S2 reads the whole of in2 in
\* every iteration
PipeGather ==
    [name |-> "gather",
     stages |-> <<
        <<OpInfo("MxV", "S1", <<RD_a("in1", Shift(NIter, 0)),
                                WR_a("in2", Shift(NIter, 0))>>)>>,
        <<OpInfo("MxV", "S2", <<RD_a("in2", All(NIter)),
                                WR_a("out", Shift(NIter, 0))>>)>> >>,
     objs_info |-> [in1 |-> <<NIter>>, in2 |-> <<NIter>>, out |-> <<NIter>>]]

Pipelines ==
    {PipeMxV, PipeConv, PipeRev, PipeResidual, PipeChain, PipeAdd, PipeArity,
     PipeNeg, PipeWide, PipeGather}

(***************************************************************************)
(* numpy arrays and matrices.                                              *)
(***************************************************************************)
RECURSIVE Idxs(_)
Idxs(shape) ==
    IF shape = <<>> THEN {<<>>}
    ELSE {<<i>> \o t : i \in 0..(Head(shape) - 1), t \in Idxs(Tail(shape))}

\* np.zeros(shape)
np_zeros(shape) == [shape |-> shape, data |-> [t \in Idxs(shape) |-> 0]]

\* obj[idx] is defined: every component within -dim .. dim-1
InBounds(arr, idx) ==
    /\ Len(idx) = Len(arr.shape)
    /\ \A d \in DOMAIN idx : -arr.shape[d] <= idx[d] /\ idx[d] < arr.shape[d]

\* numpy counts a negative component from the end
NormIdx(arr, idx) ==
    [d \in DOMAIN idx |-> IF idx[d] < 0 THEN idx[d] + arr.shape[d] ELSE idx[d]]

ArrGet(arr, idx) == arr.data[NormIdx(arr, idx)]
ArrSet(arr, idx, v) == [arr EXCEPT !.data[NormIdx(arr, idx)] = v]

\* np.matmul(m, x) for a two-dimensional m and a vector x (a sequence)
MatMulOk(m, x) == m.shape[2] = Len(x)

\* a product that walks the matrix by columns
np_matmul_by_columns(m, x) ==
    [i \in 1..m.shape[1] |->
        SumSeq([j \in 1..Len(x) |->
            (IF <<j - 1, i - 1>> \in DOMAIN m.data
             THEN m.data[<<j - 1, i - 1>>] ELSE 0) * x[j]])]

np_matmul(m, x) ==
    [i \in 1..m.shape[1] |->
        SumSeq([j \in 1..Len(x) |-> m.data[<<i - 1, j - 1>>] * x[j]])]

\* np.add(x1, x2) on vectors of one length
np_add(x1, x2) == [i \in 1..Len(x1) |-> x1[i] + x2[i]]

\* zip(a, b): pairs up to the shorter length
Zip(a, b) == [i \in 1..Min2(Len(a), Len(b)) |-> <<a[i], b[i]>>]

(***************************************************************************)
(* Pipeline.__init__: readers and writers, allocation, watermark           *)
(* relations, and the generators of every stage.                           *)
(***************************************************************************)
StageName(ops) == ops[1].stage
StageNames(pipe) == {StageName(pipe.stages[i]) : i \in DOMAIN pipe.stages}
StageOps(pipe, s) ==
    pipe.stages[CHOOSE i \in DOMAIN pipe.stages : StageName(pipe.stages[i]) = s]

\* Object(name, oi): no reader and no writer yet
Object(shape) == [reader |-> None, writer |-> None, shape |-> shape]

\* Object.set_reader without the refusal: a second reader replaces the first
set_reader_overwrites(w, o, stagename) ==
    IF w.err # None THEN w ELSE [w EXCEPT !.objs[o].reader = stagename]

\* Object.set_reader on object o of the objects w.objs; w.err is the error
\* raised so far, after which nothing more happens
set_reader(w, o, stagename) ==
    IF w.err # None THEN w
    ELSE IF w.objs[o].reader # None THEN [w EXCEPT !.err = "TypeError"]
    ELSE [w EXCEPT !.objs[o].reader = stagename]

\* Object.set_writer
set_writer(w, o, stagename) ==
    IF w.err # None THEN w
    ELSE IF w.objs[o].writer # None THEN [w EXCEPT !.err = "TypeError"]
    ELSE [w EXCEPT !.objs[o].writer = stagename]

\* one turn of one of the three loops over the object names of a stage:
\* kind is "ro", "wo" or "rw"
Attach(w, o, stagename, kind) ==
    IF w.err # None THEN w
    ELSE IF o \notin DOMAIN w.objs THEN [w EXCEPT !.err = "ValueError"]
    ELSE IF kind = "ro" THEN set_reader(w, o, stagename)
    ELSE IF kind = "wo" THEN set_writer(w, o, stagename)
    ELSE set_writer(set_reader(w, o, stagename), o, stagename)

\* a loop over a set of object names; a set is iterated in an order the
\* program does not fix, so the loop is followed in every order
RECURSIVE AttachAll(_, _, _, _)
AttachAll(W, objnames, stagename, kind) ==
    IF objnames = {} THEN W
    ELSE UNION {AttachAll({Attach(w, o, stagename, kind) : w \in W},
                          objnames \ {o}, stagename, kind) : o \in objnames}

\* the loop over the stages: read-only, then write-only, then read-write
\* objects of each
RECURSIVE Wire(_, _, _)
Wire(W, pipe, i) ==
    IF i > Len(pipe.stages) THEN W
    ELSE LET si == StageInfo(pipe.stages[i])
             nm == StageName(pipe.stages[i])
         IN Wire(AttachAll(AttachAll(AttachAll(W, si.ro_objs, nm, "ro"),
                                     si.wo_objs, nm, "wo"),
                           si.rw_objs, nm, "rw"),
                 pipe, i + 1)

\* the outcomes of Pipeline.__init__ up to the end of the loop over the
\* stages, the construction of the stages before it included
Wired(pipe) ==
    LET fresh == [objs |-> [o \in DOMAIN pipe.objs_info |-> Object(pipe.objs_info[o])],
                  err |-> None]
        bad == {i \in DOMAIN pipe.stages : StageInfo(pipe.stages[i]).err # None}
    IN
    IF bad # {}
    THEN {[fresh EXCEPT !.err = StageInfo(pipe.stages[
              CHOOSE i \in bad : \A j \in bad : i <= j]).err]}
    ELSE IF Cardinality(StageNames(pipe)) # Len(pipe.stages)
    THEN {[fresh EXCEPT !.err = "ValueError"]}
    ELSE Wire({fresh}, pipe, 1)

\* the errors the construction can raise, None for none
BuildErrs(pipe) == {w.err : w \in Wired(pipe)}

\* Object: reader and writer stage of each declared object, when the
\* construction raises nothing
BuildObjs(pipe) == (CHOOSE w \in Wired(pipe) : w.err = None).objs

\* Object.is_internal
is_internal(obj) == obj.reader # None /\ obj.reader = obj.writer

\* the enumerated watermark relation the pipeline installs on the reader
\* of o (set_isl_rel_loc_to_max_iter), Nil for an object with no writer
BuildRel(pipe, objs, s, o) ==
    IF objs[o].writer = None THEN Nil
    ELSE RelEnum(isl_rel_loc_to_max_iter(
             get_obj_wr_rel(StageOps(pipe, objs[o].writer), o),
             get_obj_rd_rel(StageOps(pipe, s), o)))

\* AccessIterator.register_iter_fn, once per access of the stage
RECURSIVE OpFns(_, _, _)
OpFns(op_id, op, accs) ==
    IF accs = <<>> THEN <<>>
    ELSE <<[op_id |-> op_id, a_ty |-> Head(accs).a_ty, obj |-> Head(accs).obj,
            stream |-> rel_a_iter(RelEnum(Head(accs).rel))]>>
         \o OpFns(op_id, op, Tail(accs))

RECURSIVE StageFns(_, _)
StageFns(ops, op_id) ==
    IF op_id > Len(ops) THEN <<>>
    ELSE OpFns(op_id, ops[op_id], ops[op_id].accesses) \o StageFns(ops, op_id + 1)

\* watermark tracking that keeps the objects no stage writes
WaitForReads_all(ro_objs, objs) == ro_objs

\* the objects a stage waits for: LocToMaxIterIterator tracks the read-only
\* objects of its stage, and set_dont_wait_for_reads takes out those that
\* have no writer
WaitForReads(ro_objs, objs) == {x \in ro_objs : objs[x].writer # None}

Build(pipe, execute_ops, loop_inp_limit) ==
    LET objs == BuildObjs(pipe)
        names == StageNames(pipe)
        si == [s \in names |-> StageInfo(StageOps(pipe, s))]
    IN
    [stages |-> [i \in DOMAIN pipe.stages |-> StageName(pipe.stages[i])],
     op_tys |-> [s \in names |->
                    [i \in DOMAIN StageOps(pipe, s) |-> StageOps(pipe, s)[i].op_ty]],
     si |-> si,
     execute_ops |-> execute_ops,
     loop_inp_limit |-> loop_inp_limit,
     p_objs |-> objs,
     loctomaxiter_rel |->
        [s \in names |-> [o \in si[s].ro_objs |-> BuildRel(pipe, objs, s, o)]],
     obj_max_iter |->
        [s \in names |->
            [o \in WaitForReads(si[s].ro_objs, objs) |-> Nil]],
     max_iter_gs |->
        [s \in names |->
            [o \in WaitForReads(si[s].ro_objs, objs) |->
                [inp |-> 0, k |-> 1]]],
     access_i |->
        [s \in names |->
            [fns |-> StageFns(StageOps(pipe, s), 1),
             inp |-> 0, k |-> 0, st |-> "RUNNING", stale |-> FALSE]],
     core |->
        [s \in names |->
            [xbar_m |-> Nil,
             objs |-> [o \in {x \in DOMAIN objs : objs[x].reader = s
                                    /\ ~is_internal(objs[x])} |->
                          np_zeros(objs[o].shape)],
             internal_objs |->
                 [o \in {x \in DOMAIN objs : objs[x].reader = s
                                    /\ is_internal(objs[x])} |->
                          np_zeros(objs[o].shape)]]],
     orphan_objs |->
        [o \in {x \in DOMAIN objs : objs[x].reader = None
                                     /\ objs[x].writer # None} |->
            np_zeros(objs[o].shape)],
     writes |-> <<>>,
     stage_ticks |-> [i \in DOMAIN pipe.stages |-> StageName(pipe.stages[i])],
     nticks |-> 0,
     ret |-> <<>>,
     err |-> None,
     \* history: the iterations each stage executed, the tick whose flush
     \* last set each watermark, the writes and callbacks of the last flush
     hist |-> [s \in names |-> <<>>],
     wm_tick |-> [s \in names |->
                    [o \in WaitForReads(si[s].ro_objs, objs) |-> -1]],
     flushed |-> <<>>,
     cb_log |-> <<>>]

(***************************************************************************)
(* AccessIterator.loop: the joined iterations of a stage.                  *)
(***************************************************************************)
RECURSIVE MinLen(_)
MinLen(fns) ==
    IF fns = <<>> THEN 0
    ELSE IF Len(fns) = 1 THEN Len(fns[1].stream)
    ELSE Min2(Len(fns[1].stream), MinLen(Tail(fns)))

\* zip(*iters) stops at the first exhausted stream: the joined steps of a pass
PassLen(fns) == MinLen(fns)

\* the streams zip has already advanced when it meets the exhausted one
\* keep their index and accesses set (no reset_access follows)
LeavesStale(fns) ==
    fns # <<>> /\ Len(fns[1].stream) > PassLen(fns)

\* update_state_dec: every stream yields the index the first one set
IdxAgree(fns, k) == \A t \in DOMAIN fns : fns[t].stream[k][1] = fns[1].stream[k][1]

\* set_access asserts the slot of (op, a_ty, obj) is unset: two streams of one
\* slot fail it
SlotClash(fns) ==
    \E t, u \in DOMAIN fns :
        t # u /\ fns[t].op_id = fns[u].op_id /\ fns[t].a_ty = fns[u].a_ty
              /\ fns[t].obj = fns[u].obj

\* the accesses of operation op_id in direction a_ty at joined step k, as
\* the dict ExecOp.accesses[a_ty]: <<obj, locations>> in insertion order
OpAccesses(fns, op_id, a_ty, k) ==
    LET sel == SelectSeq(fns, LAMBDA f : f.op_id = op_id /\ f.a_ty = a_ty)
    IN  [t \in DOMAIN sel |-> <<sel[t].obj, sel[t].stream[k][2]>>]

\* self.ops at joined step k
ExecOps(op_tys, fns, k) ==
    [i \in DOMAIN op_tys |->
        [ty |-> op_tys[i],
         RD |-> OpAccesses(fns, i, "RD", k),
         WR |-> OpAccesses(fns, i, "WR", k)]]

\* loop() with the pass limit tested after the pass it ends: inp > inp_limit
loop_one_more_pass(ai, inp_limit) ==
    LET n == PassLen(ai.fns) IN
    IF ai.k < n THEN
        [inp |-> ai.inp, k |-> ai.k + 1, stale |-> ai.stale,
         out |-> IF SlotClash(ai.fns) \/ ~IdxAgree(ai.fns, ai.k + 1)
                 THEN "AssertionError" ELSE "step"]
    ELSE IF n = 0 THEN
        [inp |-> ai.inp, k |-> ai.k, stale |-> ai.stale, out |-> "AssertionError"]
    ELSE IF inp_limit # Nil /\ ai.inp + 1 > inp_limit[1] THEN
        [inp |-> ai.inp + 1, k |-> 0, stale |-> LeavesStale(ai.fns), out |-> "stop"]
    ELSE
        [inp |-> ai.inp + 1, k |-> 1, stale |-> LeavesStale(ai.fns),
         out |-> IF LeavesStale(ai.fns) \/ ~IdxAgree(ai.fns, 1)
                 THEN "AssertionError" ELSE "step"]

\* loop() without the assertion of update_state_dec: a joined step is
\* yielded whatever indices the streams produced
loop_no_idx_check(ai, inp_limit) ==
    LET n == PassLen(ai.fns) IN
    IF ai.inp = 0 /\ ai.k = 0 /\ inp_limit # Nil /\ 0 >= inp_limit[1]
    THEN [inp |-> 0, k |-> 0, stale |-> ai.stale, out |-> "stop"]
    ELSE IF ai.k < n THEN
        [inp |-> ai.inp, k |-> ai.k + 1, stale |-> ai.stale, out |-> "step"]
    ELSE IF n = 0 THEN
        [inp |-> ai.inp, k |-> ai.k, stale |-> ai.stale, out |-> "AssertionError"]
    ELSE IF inp_limit # Nil /\ ai.inp + 1 >= inp_limit[1] THEN
        [inp |-> ai.inp + 1, k |-> 0, stale |-> LeavesStale(ai.fns), out |-> "stop"]
    ELSE
        [inp |-> ai.inp + 1, k |-> 1, stale |-> LeavesStale(ai.fns), out |-> "step"]

\* the first stream, in registration order, that is exhausted when the pass
\* ends: zip has advanced the streams before it once more
FirstShort(fns) ==
    CHOOSE t \in DOMAIN fns :
        /\ Len(fns[t].stream) = PassLen(fns)
        /\ \A u \in 1..(t - 1) : Len(fns[u].stream) > PassLen(fns)

\* the streams zip advanced past the end of the pass produced different
\* indices: update_state_dec asserts on the second of them
TailClash(fns) ==
    \E t \in 2..(FirstShort(fns) - 1) :
        fns[t].stream[PassLen(fns) + 1][1] # fns[1].stream[PassLen(fns) + 1][1]

\* where loop() stands after the generator is resumed to produce its next
\* joined step: [inp, k, stale, out], out one of "step", "stop" (the pass
\* limit is reached: StopIteration) or an error
loop(ai, inp_limit) ==
    LET n == PassLen(ai.fns) IN
    IF ai.inp = 0 /\ ai.k = 0 /\ inp_limit # Nil /\ 0 >= inp_limit[1]
    THEN [inp |-> 0, k |-> 0, stale |-> ai.stale, out |-> "stop"]
    ELSE IF ai.k < n THEN
        \* the pass goes on
        [inp |-> ai.inp, k |-> ai.k + 1, stale |-> ai.stale,
         out |-> IF SlotClash(ai.fns) \/ ~IdxAgree(ai.fns, ai.k + 1)
                 THEN "AssertionError" ELSE "step"]
    ELSE IF n = 0 \/ TailClash(ai.fns) THEN
        \* assert niters > 0, or the assertion of update_state_dec
        [inp |-> ai.inp, k |-> ai.k, stale |-> ai.stale, out |-> "AssertionError"]
    ELSE IF inp_limit # Nil /\ ai.inp + 1 >= inp_limit[1] THEN
        [inp |-> ai.inp + 1, k |-> 0, stale |-> LeavesStale(ai.fns), out |-> "stop"]
    ELSE
        \* a fresh pass
        [inp |-> ai.inp + 1, k |-> 1, stale |-> LeavesStale(ai.fns),
         out |-> IF LeavesStale(ai.fns) \/ ~IdxAgree(ai.fns, 1)
                 THEN "AssertionError" ELSE "step"]

\* the index loop() yields at joined step k of pass inp
IterIdx(ai, inp, k) == <<inp>> \o ai.fns[1].stream[k][1]

(***************************************************************************)
(* LocToMaxIterIterator                                                    *)
(***************************************************************************)
\* obj_rdy that takes an unset watermark for "no constraint"
obj_rdy_unset_ready(idx, max_iter) ==
    IF max_iter = Nil THEN TRUE ELSE LexLeq(idx, max_iter)

\* obj_rdy
obj_rdy(idx, max_iter) ==
    IF max_iter = Nil THEN FALSE ELSE LexLeq(idx, max_iter)

\* reads_ready that gives up on an object whose writer is exhausted
reads_ready_unless_writer_done(p, s, idx) ==
    \A o \in DOMAIN p.obj_max_iter[s] :
        \/ obj_rdy(idx, p.obj_max_iter[s][o])
        \/ p.p_objs[o].writer \notin Range(p.stage_ticks)

\* reads_ready with any() for all(): one tracked object that allows idx
\* is enough
reads_ready_any_object(p, s, idx) ==
    \E o \in DOMAIN p.obj_max_iter[s] : obj_rdy(idx, p.obj_max_iter[s][o])

\* reads_ready: every tracked object allows iteration idx
reads_ready(p, s, idx) ==
    \A o \in DOMAIN p.obj_max_iter[s] : obj_rdy(idx, p.obj_max_iter[s][o])

\* max_iter_gen without the loop over inp: after the last pair the first
\* one is expected again, under the same input number
max_iter_send_same_inp(p, s, obj, new_write) ==
    LET g == p.max_iter_gs[s][obj]
        fn == p.loctomaxiter_rel[s][obj]
    IN  IF new_write = fn[g.k][1]
        THEN [p EXCEPT
                !.obj_max_iter[s][obj] = <<g.inp>> \o fn[g.k][2],
                !.wm_tick[s][obj] = p.nticks,
                !.max_iter_gs[s][obj] =
                    [inp |-> g.inp, k |-> IF g.k < Len(fn) THEN g.k + 1 ELSE 1]]
        ELSE p

\* max_iter_gen without the comparison: whatever write comes is taken for
\* the expected one
max_iter_send_any_write(p, s, obj, new_write) ==
    LET g == p.max_iter_gs[s][obj]
        fn == p.loctomaxiter_rel[s][obj]
    IN  [p EXCEPT
            !.obj_max_iter[s][obj] = <<g.inp>> \o fn[g.k][2],
            !.wm_tick[s][obj] = p.nticks,
            !.max_iter_gs[s][obj] =
                IF g.k < Len(fn) THEN [inp |-> g.inp, k |-> g.k + 1]
                ELSE [inp |-> g.inp + 1, k |-> 1]]

\* max_iter_gen resumed with new_write: a match sets the watermark and moves
\* to the next pair, wrapping to the next input; anything else is dropped
max_iter_send(p, s, obj, new_write) ==
    LET g == p.max_iter_gs[s][obj]
        fn == p.loctomaxiter_rel[s][obj]
        write == fn[g.k][1]
        max_iter == fn[g.k][2]
    IN  IF new_write = write
        THEN [p EXCEPT
                !.obj_max_iter[s][obj] = <<g.inp>> \o max_iter,
                !.wm_tick[s][obj] = p.nticks,
                !.max_iter_gs[s][obj] =
                    IF g.k < Len(fn) THEN [inp |-> g.inp, k |-> g.k + 1]
                    ELSE [inp |-> g.inp + 1, k |-> 1]]
        ELSE p

(***************************************************************************)
(* Core: a core is [xbar_m, objs, internal_objs].  The results of a run of *)
(* operations are a dict object -> list of (index, value), kept as a       *)
(* sequence of <<object, pairs>> in insertion order.                       *)
(***************************************************************************)
\* the first index of idxs an access to arr fails on, as an error, or None
IdxErr(arr, idxs) ==
    IF \A i \in DOMAIN idxs : InBounds(arr, idxs[i]) THEN None
    ELSE LET i == CHOOSE i \in DOMAIN idxs :
                     /\ ~InBounds(arr, idxs[i])
                     /\ \A h \in 1..(i - 1) : InBounds(arr, idxs[h])
         IN  IF Len(idxs[i]) # Len(arr.shape) THEN "AssertionError"
             ELSE "IndexError"

\* read_object: the array looked up among the external, then the internal
\* objects
read_object_err(c, objstr, rd_is) ==
    IF objstr \in DOMAIN c.objs THEN IdxErr(c.objs[objstr], rd_is)
    ELSE IF objstr \in DOMAIN c.internal_objs
         THEN IdxErr(c.internal_objs[objstr], rd_is)
    ELSE "ValueError"

read_object(c, objstr, rd_is) ==
    LET obj == IF objstr \in DOMAIN c.objs THEN c.objs[objstr]
               ELSE c.internal_objs[objstr]
    IN  [i \in DOMAIN rd_is |-> ArrGet(obj, rd_is[i])]

\* obj[w_i] = w_v for the pairs in order, up to the first failing index
RECURSIVE ArrSetAll(_, _)
ArrSetAll(arr, pairs) ==
    IF pairs = <<>> \/ ~InBounds(arr, Head(pairs)[1]) THEN arr
    ELSE ArrSetAll(ArrSet(arr, Head(pairs)[1], Head(pairs)[2]), Tail(pairs))

\* the values of a result: numbers, never None
Vals(wr_vs) == [i \in DOMAIN wr_vs |-> <<wr_vs[i]>>]

PairIdxs(pairs) == [i \in DOMAIN pairs |-> pairs[i][1]]

\* handle_op_output on the accumulator acc = [core, results, err]
handle_op_output(acc, objstr, wr_is, wr_vs) ==
    IF acc.err # None THEN acc
    ELSE IF objstr \in DOMAIN acc.core.internal_objs THEN
        LET obj == acc.core.internal_objs[objstr]
            e == IdxErr(obj, PairIdxs(Zip(wr_is, wr_vs)))
        IN  [acc EXCEPT
                !.core.internal_objs[objstr] = ArrSetAll(obj, Zip(wr_is, wr_vs)),
                !.err = IF e = None THEN None ELSE "IndexError"]
    ELSE IF \E i \in DOMAIN acc.results : acc.results[i][1] = objstr
         THEN [acc EXCEPT !.err = "AssertionError"]
    ELSE [acc EXCEPT !.results = Append(@, <<objstr, Zip(wr_is, Vals(wr_vs))>>)]

RECURSIVE OpOutputs(_, _, _)
OpOutputs(acc, wrs, y) ==
    IF wrs = <<>> THEN acc
    ELSE OpOutputs(handle_op_output(acc, Head(wrs)[1], Head(wrs)[2], y),
                   Tail(wrs), y)

\* np.add broadcasts a vector of one element
AddOk(x1, x2) == Len(x1) = Len(x2) \/ Len(x1) = 1 \/ Len(x2) = 1
Broadcast(x, n) == IF Len(x) = n THEN x ELSE [i \in 1..n |-> x[1]]
AddVec(x1, x2) ==
    LET n == IF Len(x1) >= Len(x2) THEN Len(x1) ELSE Len(x2)
    IN  np_add(Broadcast(x1, n), Broadcast(x2, n))

\* one turn of the loop of execute_ops
ExecuteOp(acc, op) ==
    IF acc.err # None THEN acc
    ELSE IF op.ty = "MxV" THEN
        IF Len(op.RD) # 1 THEN [acc EXCEPT !.err = "ValueError"]
        ELSE IF read_object_err(acc.core, op.RD[1][1], op.RD[1][2]) # None
        THEN [acc EXCEPT !.err = read_object_err(acc.core, op.RD[1][1], op.RD[1][2])]
        ELSE LET x == read_object(acc.core, op.RD[1][1], op.RD[1][2]) IN
             IF ~MatMulOk(acc.core.xbar_m, x) THEN [acc EXCEPT !.err = "ValueError"]
             ELSE OpOutputs(acc, op.WR, np_matmul(acc.core.xbar_m, x))
    ELSE IF op.ty = "ADD" THEN
        IF Len(op.RD) # 2 THEN [acc EXCEPT !.err = "ValueError"]
        ELSE IF read_object_err(acc.core, op.RD[1][1], op.RD[1][2]) # None
        THEN [acc EXCEPT !.err = read_object_err(acc.core, op.RD[1][1], op.RD[1][2])]
        ELSE IF read_object_err(acc.core, op.RD[2][1], op.RD[2][2]) # None
        THEN [acc EXCEPT !.err = read_object_err(acc.core, op.RD[2][1], op.RD[2][2])]
        ELSE LET x1 == read_object(acc.core, op.RD[1][1], op.RD[1][2])
                 x2 == read_object(acc.core, op.RD[2][1], op.RD[2][2])
             IN  IF ~AddOk(x1, x2) THEN [acc EXCEPT !.err = "ValueError"]
                 ELSE OpOutputs(acc, op.WR, AddVec(x1, x2))
    ELSE [acc EXCEPT !.err = "ValueError"]

RECURSIVE ExecuteLoop(_, _)
ExecuteLoop(acc, ops) ==
    IF ops = <<>> THEN acc ELSE ExecuteLoop(ExecuteOp(acc, Head(ops)), Tail(ops))

\* execute_ops: [core, results, err]
execute_ops(c, ops) ==
    IF c.xbar_m = Nil THEN [core |-> c, results |-> <<>>, err |-> "RuntimeError"]
    ELSE IF ops[1].ty # "MxV"
         THEN [core |-> c, results |-> <<>>, err |-> "AssertionError"]
    ELSE ExecuteLoop([core |-> c, results |-> <<>>, err |-> None], ops)

\* zip(wr_is, itertools.repeat(None))
NonePairs(wr_is) == [i \in DOMAIN wr_is |-> <<wr_is[i], Nil>>]

\* the loop over the write accesses, nested in the loop over the read
\* accesses of validate_ops
RECURSIVE ValidateWrites(_, _)
ValidateWrites(acc, wrs) ==
    IF wrs = <<>> \/ acc.err # None THEN acc
    ELSE IF \E i \in DOMAIN acc.results : acc.results[i][1] = Head(wrs)[1]
         THEN [acc EXCEPT !.err = "AssertionError"]
    ELSE ValidateWrites(
            [acc EXCEPT !.results = Append(@, <<Head(wrs)[1], NonePairs(Head(wrs)[2])>>)],
            Tail(wrs))

RECURSIVE ValidateReads(_, _, _)
ValidateReads(acc, rds, wrs) ==
    IF rds = <<>> \/ acc.err # None THEN acc
    ELSE IF Head(rds)[1] \notin DOMAIN acc.core.objs
         THEN [acc EXCEPT !.err = "ValueError"]
    ELSE IF IdxErr(acc.core.objs[Head(rds)[1]], Head(rds)[2]) # None
         THEN [acc EXCEPT !.err = IdxErr(acc.core.objs[Head(rds)[1]], Head(rds)[2])]
    ELSE ValidateReads(ValidateWrites(acc, wrs), Tail(rds), wrs)

RECURSIVE ValidateLoop(_, _)
ValidateLoop(acc, ops) ==
    IF ops = <<>> THEN acc
    ELSE ValidateLoop(ValidateReads(acc, Head(ops).RD, Head(ops).WR), Tail(ops))

\* validate_ops: [core, results, err]
validate_ops(c, ops) ==
    ValidateLoop([core |-> c, results |-> <<>>, err |-> None], ops)

\* Core.write_obj / Core.validate_write
write_obj(c, objname, w_idx, w_val) ==
    [c EXCEPT !.objs[objname] = ArrSet(@, w_idx, w_val)]

(***************************************************************************)
(* Stage and Pipeline at run time.  p is the Pipeline object: the record   *)
(* Build makes.                                                            *)
(***************************************************************************)
\* Stage.write_callback on the reader of the object
write_callback(p, reader, wr_objstr, wr_idx, wr_val) ==
    LET q == [p EXCEPT !.cb_log = Append(@, <<reader, wr_objstr, wr_idx, wr_val>>)]
    IN  IF wr_objstr \notin p.si[reader].ro_objs THEN [q EXCEPT !.err = "AssertionError"]
        ELSE IF ~InBounds(p.core[reader].objs[wr_objstr], wr_idx)
             THEN [q EXCEPT !.err = "IndexError"]
        ELSE max_iter_send(
                IF wr_val # Nil
                THEN [q EXCEPT !.core[reader] = write_obj(@, wr_objstr, wr_idx, wr_val[1])]
                ELSE q,
                reader, wr_objstr, wr_idx)

\* one turn of a flush loop that has no orphan branch
FlushOne_readers_only(p, w) ==
    IF p.p_objs[w[1]].reader # None
    THEN write_callback(p, p.p_objs[w[1]].reader, w[1], w[2], w[3])
    ELSE p

\* one turn of the loop of flush_writes
FlushOne(p, w) ==
    LET wr_objstr == w[1]
        wr_idx == w[2]
        wr_val == w[3]
        reader == p.p_objs[wr_objstr].reader
    IN  IF reader # None THEN write_callback(p, reader, wr_objstr, wr_idx, wr_val)
        ELSE IF wr_val # Nil /\ wr_objstr \in DOMAIN p.orphan_objs THEN
            IF Len(wr_idx) # Len(p.orphan_objs[wr_objstr].shape)
            THEN [p EXCEPT !.err = "AssertionError"]
            ELSE IF ~InBounds(p.orphan_objs[wr_objstr], wr_idx)
            THEN [p EXCEPT !.err = "IndexError"]
            ELSE [p EXCEPT !.orphan_objs[wr_objstr] = ArrSet(@, wr_idx, wr_val[1])]
        ELSE p

\* a handle_write that delivers the write at once
handle_write_through(p, stage, wr_obj, wr_idx, wr_val) ==
    IF p.err # None THEN p
    ELSE IF stage # p.p_objs[wr_obj].writer THEN [p EXCEPT !.err = "AssertionError"]
    ELSE FlushOne([p EXCEPT !.flushed = Append(@, <<wr_obj, wr_idx, wr_val>>)],
                  <<wr_obj, wr_idx, wr_val>>)

\* Pipeline.handle_write: the write joins the pending-write buffer
handle_write(p, stage, wr_obj, wr_idx, wr_val) ==
    IF p.err # None THEN p
    ELSE IF stage # p.p_objs[wr_obj].writer THEN [p EXCEPT !.err = "AssertionError"]
    ELSE [p EXCEPT !.writes = Append(@, <<wr_obj, wr_idx, wr_val>>)]

\* Stage.issue_write for every (index, value) of every object of out
RECURSIVE IssueVals(_, _, _, _)
IssueVals(p, s, objstr, objvals) ==
    IF objvals = <<>> THEN p
    ELSE IssueVals(handle_write(p, s, objstr, Head(objvals)[1], Head(objvals)[2]),
                   s, objstr, Tail(objvals))

RECURSIVE IssueAll(_, _, _)
IssueAll(p, s, out) ==
    IF out = <<>> THEN p
    ELSE IssueAll(IssueVals(p, s, Head(out)[1], Head(out)[2]), s, Tail(out))

\* a tick generator that runs the operations of the joined step before it
\* looks at the watermarks: a stage that is not ready has executed and
\* issued its writes when it reports none
Attempt_runs_before_ready(p, s, inp, k, stale) ==
    LET ai == p.access_i[s]
        idx == IterIdx(ai, inp, k)
        at(st) == [ai EXCEPT !.inp = inp, !.k = k, !.stale = stale, !.st = st]
        ops == ExecOps(p.op_tys[s], ai.fns, k)
        out == IF p.execute_ops THEN execute_ops(p.core[s], ops)
               ELSE validate_ops(p.core[s], ops)
        q == [p EXCEPT !.access_i[s] = at("RUNNING"), !.core[s] = out.core]
    IN  IF out.err # None THEN [q EXCEPT !.err = out.err]
        ELSE LET w == IssueAll(q, s, out.results)
             IN  IF w.err # None THEN w
                 ELSE IF ~reads_ready(p, s, idx)
                 THEN [w EXCEPT !.access_i[s] = at("STALLED"),
                                !.ret = (s :> Nil) @@ @]
                 ELSE [w EXCEPT !.hist[s] = Append(@, idx),
                                !.ret = (s :> idx) @@ @]

\* what the stage does with the joined step (inp, k) once it has it: stall,
\* or execute and issue the writes
Attempt(p, s, inp, k, stale) ==
    LET ai == p.access_i[s]
        idx == IterIdx(ai, inp, k)
        at(st) == [ai EXCEPT !.inp = inp, !.k = k, !.stale = stale, !.st = st]
    IN  IF ~reads_ready(p, s, idx)
        THEN [p EXCEPT !.access_i[s] = at("STALLED"), !.ret = (s :> Nil) @@ @]
        ELSE LET ops == ExecOps(p.op_tys[s], ai.fns, k)
                 out == IF p.execute_ops THEN execute_ops(p.core[s], ops)
                        ELSE validate_ops(p.core[s], ops)
                 q == [p EXCEPT !.access_i[s] = at("RUNNING"),
                                !.core[s] = out.core]
             IN  IF out.err # None THEN [q EXCEPT !.err = out.err]
                 ELSE LET w == IssueAll(q, s, out.results)
                      IN  IF w.err # None THEN w
                          ELSE [w EXCEPT !.hist[s] = Append(@, idx),
                                         !.ret = (s :> idx) @@ @]

\* a tick generator that pulls the next joined step after a stall
tick_gen_repull(p, s) ==
    LET ai == p.access_i[s]
        l == loop(ai, p.loop_inp_limit) IN
    IF l.out = "stop"
    THEN [p EXCEPT
            !.access_i[s] = [ai EXCEPT !.inp = l.inp, !.k = l.k,
                                       !.stale = l.stale, !.st = "DONE"],
            !.stage_ticks = SelectSeq(@, LAMBDA x : x # s),
            !.ret = (s :> Nil) @@ @]
    ELSE IF l.out # "step" THEN [p EXCEPT !.err = l.out]
    ELSE Attempt(p, s, l.inp, l.k, l.stale)

\* next(t) on the tick generator of stage s (Stage.tick_gen), with what
\* Pipeline.tick does with its outcome
tick_gen(p, s) ==
    LET ai == p.access_i[s] IN
    IF ai.st = "STALLED" THEN Attempt(p, s, ai.inp, ai.k, ai.stale)
    ELSE LET l == loop(ai, p.loop_inp_limit) IN
         IF l.out = "stop"
         THEN [p EXCEPT
                 !.access_i[s] = [ai EXCEPT !.inp = l.inp, !.k = l.k,
                                            !.stale = l.stale, !.st = "DONE"],
                 !.stage_ticks = SelectSeq(@, LAMBDA x : x # s),
                 !.ret = (s :> Nil) @@ @]
         ELSE IF l.out # "step" THEN [p EXCEPT !.err = l.out]
         ELSE Attempt(p, s, l.inp, l.k, l.stale)

\* a flush that walks the buffer from its newest write to its oldest
RECURSIVE FlushLoop_newest_first(_, _)
FlushLoop_newest_first(p, ws) ==
    IF ws = <<>> \/ p.err # None THEN p
    ELSE FlushLoop_newest_first(FlushOne(p, ws[Len(ws)]), SubSeq(ws, 1, Len(ws) - 1))

RECURSIVE FlushLoop(_, _)
FlushLoop(p, ws) ==
    IF ws = <<>> \/ p.err # None THEN p
    ELSE FlushLoop(FlushOne(p, Head(ws)), Tail(ws))

\* one buffer for every Pipeline object: the one pline holds
PendingWrites_shared(p) == pline.writes

\* the buffer flush_writes walks
PendingWrites(p) == p.writes

\* Pipeline.flush_writes
flush_writes(p) ==
    LET q == FlushLoop([p EXCEPT !.flushed = PendingWrites(p), !.cb_log = <<>>],
                       PendingWrites(p))
    IN  IF q.err # None THEN q ELSE [q EXCEPT !.writes = <<>>]

\* a loop over the stages that ends at the first stage that reports none
RECURSIVE TickStages_until_stall(_, _)
TickStages_until_stall(p, order) ==
    IF order = <<>> \/ p.err # None THEN p
    ELSE LET q == tick_gen(p, Head(order)) IN
         IF q.err = None /\ q.ret[Head(order)] = Nil THEN q
         ELSE TickStages_until_stall(q, Tail(order))

\* the stages of order ticked one after the other
RECURSIVE TickStages(_, _)
TickStages(p, order) ==
    IF order = <<>> \/ p.err # None THEN p
    ELSE TickStages(tick_gen(p, Head(order)), Tail(order))

\* Pipeline.tick with its live stages taken in the given order
tick(p, order) ==
    LET q == TickStages([p EXCEPT !.ret = <<>>], order) IN
    IF q.err # None THEN q
    ELSE LET f == flush_writes(q)
         IN  IF f.err # None THEN f ELSE [f EXCEPT !.nticks = @ + 1]

\* Pipeline.get_object, by the array it returns a reference to: the map
\* that holds the array, the stage that owns the map (None for the
\* pipeline's orphan buffers) and the name, or the error it raises
get_object_ref(p, objstr) ==
    IF objstr \notin DOMAIN p.p_objs THEN [err |-> "KeyError", ref |-> Nil]
    ELSE LET obj == p.p_objs[objstr] IN
         IF is_internal(obj)
         THEN [err |-> None, ref |-> <<"internal_objs", obj.reader, objstr>>]
         ELSE IF obj.reader # None
         THEN [err |-> None, ref |-> <<"objs", obj.reader, objstr>>]
         ELSE IF objstr \in DOMAIN p.orphan_objs
         THEN [err |-> None, ref |-> <<"orphan_objs", None, objstr>>]
         ELSE [err |-> "ValueError", ref |-> Nil]

\* Pipeline.get_object: the live array of a declared object
get_object(p, objstr) ==
    LET obj == p.p_objs[objstr] IN
    IF is_internal(obj) THEN p.core[obj.reader].internal_objs[objstr]
    ELSE IF obj.reader # None THEN p.core[obj.reader].objs[objstr]
    ELSE p.orphan_objs[objstr]

(***************************************************************************)
(* Configuration and seeding by the caller.                                *)
(***************************************************************************)
\* Core.width
CoreWidth == 256

\* Core.set_xbar_matrix
set_xbar_matrix(c, xbar_m) ==
    IF xbar_m.shape[1] > CoreWidth \/ xbar_m.shape[2] > CoreWidth
    THEN [core |-> c, err |-> "ValueError"]
    ELSE [core |-> [c EXCEPT !.xbar_m = xbar_m], err |-> None]

\* Pipeline.configure: zip(corecnfs, self.stages), one core after the other
RECURSIVE configure(_, _, _)
configure(p, corecnfs, i) ==
    IF i > Min2(Len(corecnfs), Len(p.stages)) \/ p.err # None THEN p
    ELSE LET r == set_xbar_matrix(p.core[p.stages[i]], corecnfs[i])
         IN  configure([p EXCEPT !.core[p.stages[i]] = r.core, !.err = r.err],
                       corecnfs, i + 1)

\* the matrices a caller configures: the unit pattern, or weights that tell
\* the gathered positions apart
Matrix(rows, cols, kind) ==
    [shape |-> <<rows, cols>>,
     data |-> [t \in Idxs(<<rows, cols>>) |->
                 IF kind = "eye" THEN (IF t[1] = t[2] THEN 1 ELSE 0)
                 ELSE 2 * t[1] + t[2] + 1]]
WeightKinds == {"eye", "ramp"}

\* the shape that fits the first operation of stage s: one column per
\* location read, one row per location written
XbarRows(p, s) ==
    LET wr == OpAccesses(p.access_i[s].fns, 1, "WR", 1)
    IN  IF wr = <<>> THEN 1 ELSE Len(wr[1][2])
XbarCols(p, s) == Len(OpAccesses(p.access_i[s].fns, 1, "RD", 1)[1][2])

\* the values a caller seeds an input object with
SeedArray(shape, kind) ==
    [shape |-> shape,
     data |-> [t \in Idxs(shape) |-> IF kind = 0 THEN t[1] + 1 ELSE kind]]
SeedKinds == 0..MaxVal

\* the objects a caller seeds: read by a stage, written by none
InputObjs(p) ==
    {o \in DOMAIN p.p_objs : p.p_objs[o].reader # None /\ p.p_objs[o].writer = None}

\* get_object(o)[...] = values, for every input object
seed(p, kind) ==
    [p EXCEPT !.core =
        [s \in DOMAIN p.core |->
            [p.core[s] EXCEPT !.objs =
                [o \in DOMAIN p.core[s].objs |->
                    IF o \in InputObjs(p)
                    THEN SeedArray(p.p_objs[o].shape, kind)
                    ELSE p.core[s].objs[o]]]]]

(***************************************************************************)
(* The run of one pipeline.                                                *)
(***************************************************************************)
Limits == {Nil} \cup {<<l>> : l \in 0..MaxPass}

\* a stage with no pass limit is followed up to the end of pass MaxPass-1
Capped(p) ==
    /\ p.loop_inp_limit = Nil
    /\ \E i \in DOMAIN p.stage_ticks :
          LET ai == p.access_i[p.stage_ticks[i]] IN
          /\ ai.st # "STALLED"
          /\ ai.k > 0
          /\ ai.k = PassLen(ai.fns)
          /\ ai.inp + 1 >= MaxPass

\* the ticks a run is followed for: enough for every stage to finish
\* MaxPass passes behind the stage that feeds it
MaxTicks == 2 * NIter * MaxPass + 2

Init ==
    /\ \E pipe \in Pipelines, e \in BOOLEAN, l \in Limits :
          /\ BuildErrs(pipe) = {None}
          /\ pline = Build(pipe, e, l)
    /\ pc = "idle"
    /\ todo = <<>>
    /\ twin = None
    /\ scan = None

\* pline.configure(corecnfs), before the first tick
Configure ==
    /\ pc = "idle" /\ pline.nticks = 0 /\ pline.err = None
    /\ \E kinds \in [DOMAIN pline.stages -> WeightKinds] :
          pline' = configure(pline,
                      [i \in DOMAIN pline.stages |->
                          Matrix(XbarRows(pline, pline.stages[i]),
                                 XbarCols(pline, pline.stages[i]), kinds[i])], 1)
    /\ UNCHANGED <<pc, todo, twin, scan>>

\* pline.configure(corecnfs) with a matrix one column wider than a core for
\* one of the stages
ConfigureOversized ==
    /\ pc = "idle" /\ pline.nticks = 0 /\ pline.err = None
    /\ \E kind \in WeightKinds, big \in DOMAIN pline.stages :
          pline' = configure(pline,
                      [i \in DOMAIN pline.stages |->
                          IF i = big THEN Matrix(1, CoreWidth + 1, kind)
                          ELSE Matrix(XbarRows(pline, pline.stages[i]),
                                      XbarCols(pline, pline.stages[i]), kind)], 1)
    /\ UNCHANGED <<pc, todo, twin, scan>>

\* pline.configure(corecnfs) with a list one shorter than the stages: zip
\* leaves the core of the last stage as it was
ConfigureShort ==
    /\ pc = "idle" /\ pline.nticks = 0 /\ pline.err = None
    /\ Len(pline.stages) > 1
    /\ \E kinds \in [1..(Len(pline.stages) - 1) -> WeightKinds] :
          pline' = configure(pline,
                      [i \in 1..(Len(pline.stages) - 1) |->
                          Matrix(XbarRows(pline, pline.stages[i]),
                                 XbarCols(pline, pline.stages[i]), kinds[i])], 1)
    /\ UNCHANGED <<pc, todo, twin, scan>>

\* the caller seeds the input objects, before the first tick
Seed ==
    /\ pc = "idle" /\ pline.nticks = 0 /\ pline.err = None
    /\ \E kind \in SeedKinds : pline' = seed(pline, kind)
    /\ UNCHANGED <<pc, todo, twin, scan>>

\* tick() starts: stage_keys = list(self.stage_ticks.keys())
TickBegin ==
    /\ pc = "idle" /\ pline.err = None
    /\ pline.stage_ticks # <<>>
    /\ ~Capped(pline)
    /\ pline.nticks < MaxTicks
    /\ pline' = [pline EXCEPT !.ret = <<>>]
    /\ todo' = pline.stage_ticks
    /\ pc' = "ticking"
    /\ UNCHANGED <<twin, scan>>

\* a tick() that counts itself before it looks for live stages
TickStop_counts ==
    /\ pc = "idle" /\ pline.err = None
    /\ pline.stage_ticks = <<>>
    /\ pline' = [pline EXCEPT !.nticks = @ + 1]
    /\ pc' = "stopped"
    /\ UNCHANGED <<todo, twin, scan>>

\* tick() with no live stage raises StopIteration
TickStop ==
    /\ pc = "idle" /\ pline.err = None
    /\ pline.stage_ticks = <<>>
    /\ pc' = "stopped"
    /\ UNCHANGED <<pline, todo, twin, scan>>

\* one turn of the loop over stage_keys
StageTick ==
    /\ pc = "ticking" /\ pline.err = None
    /\ todo # <<>>
    /\ pline' = tick_gen(pline, Head(todo))
    /\ todo' = Tail(todo)
    /\ UNCHANGED <<pc, twin, scan>>

\* all stages ticked: flush_writes(), nticks += 1, return ret
Flush ==
    /\ pc = "ticking" /\ pline.err = None
    /\ todo = <<>>
    /\ pline' = LET f == flush_writes(pline)
                IN  IF f.err # None THEN f ELSE [f EXCEPT !.nticks = @ + 1]
    /\ pc' = "idle"
    /\ UNCHANGED <<todo, twin, scan>>

Next ==
    \/ Configure \/ ConfigureOversized \/ ConfigureShort \/ Seed
    \/ TickBegin \/ TickStop \/ StageTick \/ Flush

Spec == Init /\ [][Next]_vars

(***************************************************************************)
(* Properties.                                                             *)
(***************************************************************************)
Live(p) == Range(p.stage_ticks)

\* the objects whose watermark gates stage s
Tracked(p, s) == DOMAIN p.obj_max_iter[s]

\* a stage that reads an object another stage writes
Consumers(p) == {s \in DOMAIN p.obj_max_iter : Tracked(p, s) # {}}

\* C1: a stage that reads objects another stage writes executes iteration
\* idx only while every such object's watermark is set and at least idx, and
\* that watermark was set by the flush of an earlier tick
C1_ExecutesBehindWatermark ==
    (pc = "ticking" /\ pline.err = None) =>
        \A s \in DOMAIN pline.ret :
            pline.ret[s] # Nil =>
                \A o \in Tracked(pline, s) :
                    /\ pline.obj_max_iter[s][o] # Nil
                    /\ LexLeq(pline.ret[s], pline.obj_max_iter[s][o])
                    /\ pline.wm_tick[s][o] >= 0
                    /\ pline.wm_tick[s][o] < pline.nticks

C1_Witness ==
    /\ pc = "ticking" /\ pline.err = None
    /\ \E s \in Consumers(pline) :
          /\ s \in DOMAIN pline.ret
          /\ pline.ret[s] # Nil
          /\ Len(pline.hist[s]) > 1

\* what a tick may change only at its flush: the arrays a reader or the
\* caller sees, the watermarks and the cursors of their relations
Delivered(p) ==
    [objs |-> [s \in DOMAIN p.core |-> p.core[s].objs],
     orphan_objs |-> p.orphan_objs,
     obj_max_iter |-> p.obj_max_iter,
     max_iter_gs |-> p.max_iter_gs]

\* C2: while stages of a tick remain to be ticked, a stage's tick leaves the
\* reader-visible arrays, the orphan buffers, the watermarks and the
\* relation cursors alone and only appends to the pending-write buffer;
\* every live stage has ticked when the flush runs
C2_WritesWaitForFlush ==
    [][(pc = "ticking" /\ pline.err = None) =>
          /\ todo # <<>> =>
                /\ Delivered(pline)' = Delivered(pline)
                /\ IsPrefix(pline.writes, pline'.writes)
          /\ todo = <<>> =>
                /\ Live(pline) \subseteq DOMAIN pline.ret
                /\ pline'.err = None => pline'.writes = <<>>]_vars

C2_Witness ==
    /\ pc = "ticking" /\ pline.err = None
    /\ todo # <<>>
    /\ pline.writes # <<>>
    /\ \E i \in DOMAIN pline.writes :
          LET r == pline.p_objs[pline.writes[i][1]].reader IN
          r # None /\ r \in Range(todo) /\ pline.writes[i][3] # Nil

\* the orders a caller may tick the live stages in
Orders(seq) ==
    {f \in [DOMAIN seq -> Range(seq)] : \A i, j \in DOMAIN seq : i # j => f[i] # f[j]}

\* what the claim compares after a tick: the tick result and the state a
\* later tick or the caller reads
AfterTick(q) ==
    [ret |-> q.ret, core |-> q.core, orphan_objs |-> q.orphan_objs,
     obj_max_iter |-> q.obj_max_iter, max_iter_gs |-> q.max_iter_gs,
     access_i |-> q.access_i, stage_ticks |-> q.stage_ticks,
     writes |-> q.writes, nticks |-> q.nticks, err |-> q.err]

CanTick ==
    /\ pc = "idle" /\ pline.err = None
    /\ pline.stage_ticks # <<>>

\* C3: from any state between ticks, ticking the live stages in any order
\* gives the tick result and the post-flush state that the code's order gives
C3_TickOrderIrrelevant ==
    CanTick =>
        LET ref == tick(pline, pline.stage_ticks) IN
        \A order \in Orders(pline.stage_ticks) :
            LET q == tick(pline, order) IN
            /\ (q.err = None) = (ref.err = None)
            /\ ref.err = None => AfterTick(q) = AfterTick(ref)

C3_Witness ==
    /\ CanTick
    /\ Len(pline.stage_ticks) > 2
    /\ LET ref == tick(pline, pline.stage_ticks) IN
       /\ ref.err = None
       /\ \A s \in Live(pline) : ref.ret[s] # Nil
       /\ ref.cb_log # <<>>

\* C14: a tick advances every stage that is live when it starts once, and
\* no other stage: its result has one entry per such stage, the iteration
\* the stage executed, which is the one iteration added to what the stage
\* has executed, or none for a stage that executed nothing, which then is
\* stalled or exhausted
C14_EveryLiveStageTicksOnce ==
    CanTick =>
        LET q == tick(pline, pline.stage_ticks) IN
        q.err = None =>
            /\ DOMAIN q.ret = Live(pline)
            /\ \A s \in DOMAIN pline.hist :
                  IF s \in Live(pline)
                  THEN \/ /\ q.ret[s] # Nil
                          /\ q.hist[s] = Append(pline.hist[s], q.ret[s])
                          /\ q.access_i[s].st = "RUNNING"
                       \/ /\ q.ret[s] = Nil
                          /\ q.hist[s] = pline.hist[s]
                          /\ q.access_i[s].st \in {"STALLED", "DONE"}
                  ELSE /\ q.hist[s] = pline.hist[s]
                       /\ q.access_i[s] = pline.access_i[s]

\* a tick of three live stages of which one executes, a later one stalls
\* and a third is ticked after it
C14_Witness ==
    /\ CanTick
    /\ Len(pline.stage_ticks) > 2
    /\ LET q == tick(pline, pline.stage_ticks) IN
       /\ q.err = None
       /\ \E i, j \in DOMAIN pline.stage_ticks :
             /\ j < i
             /\ i < Len(pline.stage_ticks)
             /\ q.ret[pline.stage_ticks[i]] = Nil
             /\ q.access_i[pline.stage_ticks[i]].st = "STALLED"
             /\ q.ret[pline.stage_ticks[j]] # Nil

\* C4 as claimed: a set watermark is never unset and never decreases
C4_WatermarkMonotone ==
    [][\A s \in DOMAIN pline.obj_max_iter : \A o \in Tracked(pline, s) :
          pline.obj_max_iter[s][o] # Nil =>
              /\ pline'.obj_max_iter[s][o] # Nil
              /\ LexLeq(pline.obj_max_iter[s][o], pline'.obj_max_iter[s][o])]_vars

\* the n-th joined iteration of stage s, counted over the passes
EnumAt(p, s, n) ==
    LET len == PassLen(p.access_i[s].fns)
    IN  IterIdx(p.access_i[s], (n - 1) \div len, ((n - 1) % len) + 1)

\* the position loop() holds after yielding the n-th joined iteration
PosAt(p, s, n) ==
    LET len == PassLen(p.access_i[s].fns)
    IN  <<(n - 1) \div len, ((n - 1) % len) + 1>>

\* C5: the iterations a stage has executed are the first ones of the joined
\* enumeration order, each once; a stalled stage waits at the one that
\* follows them
C5_NoSkipNoRepeat ==
    pline.err = None =>
        \A s \in DOMAIN pline.hist :
            LET ai == pline.access_i[s]
                done == Len(pline.hist[s]) IN
            /\ \A n \in 1..done : pline.hist[s][n] = EnumAt(pline, s, n)
            /\ ai.st = "STALLED" => <<ai.inp, ai.k>> = PosAt(pline, s, done + 1)
            /\ (ai.st = "RUNNING" /\ done > 0) => <<ai.inp, ai.k>> = PosAt(pline, s, done)

C5_Witness ==
    /\ pline.err = None
    /\ \E s \in Consumers(pline) :
          /\ pline.access_i[s].st = "RUNNING"
          /\ Len(pline.hist[s]) > PassLen(pline.access_i[s].fns)
          /\ pline.nticks > Len(pline.hist[s]) + 1

\* the joined iterations of L passes of stage s
Budget(p, s) == p.loop_inp_limit[1] * PassLen(p.access_i[s].fns)

\* C15: with a pass limit L a stage executes the joined iterations of
\* passes 0 .. L-1 in order and no more, each reported with its pass number
\* in front; the stage is exhausted when it has executed them all, the
\* tick that finds it exhausted raises nothing, reports none for it and
\* takes it from the live stages, and no later tick reports it
C15_PassLimitEndsStage ==
    (pline.err = None /\ pline.loop_inp_limit # Nil) =>
        \A s \in DOMAIN pline.hist :
            LET ai == pline.access_i[s]
                done == Len(pline.hist[s]) IN
            /\ done <= Budget(pline, s)
            /\ \A n \in 1..done :
                  /\ pline.hist[s][n] = EnumAt(pline, s, n)
                  /\ pline.hist[s][n][1] = (n - 1) \div PassLen(ai.fns)
                  /\ pline.hist[s][n][1] < pline.loop_inp_limit[1]
            /\ ai.st = "DONE" <=> s \notin Live(pline)
            /\ ai.st = "DONE" => done = Budget(pline, s)
            /\ (pc = "ticking" /\ s \in DOMAIN pline.ret /\ s \notin Live(pline))
                  => pline.ret[s] = Nil
            /\ (pc = "idle" /\ s \in Live(pline) /\ ai.st # "STALLED"
                    /\ done = Budget(pline, s)) =>
                  LET q == tick_gen([pline EXCEPT !.ret = <<>>], s) IN
                  /\ q.err = None
                  /\ q.ret = (s :> Nil)
                  /\ s \notin Live(q)
                  /\ q.access_i[s].st = "DONE"
            /\ (CanTick /\ s \notin Live(pline)) =>
                  s \notin DOMAIN tick(pline, pline.stage_ticks).ret

\* a stage that reads what another stage writes has executed every pass of
\* the largest limit and is exhausted, while another stage is still live
C15_Witness ==
    /\ pline.err = None /\ pline.loop_inp_limit = <<MaxPass>>
    /\ CanTick
    /\ \E s \in Consumers(pline) :
          /\ pline.access_i[s].st = "DONE"
          /\ Len(pline.hist[s]) = Budget(pline, s)
          /\ Len(pline.hist[s]) > 1

\* C16: a call of tick signals termination exactly when no stage is live at
\* its start, and then changes nothing of the pipeline; a call that finds a
\* live stage runs the tick, and a tick that completes counts once and
\* gives one result; after the termination signal tick_gen gives nothing
\* more
C16_StopsIffNoLiveStage ==
    [][/\ (pc # "stopped" /\ pc' = "stopped") =>
             /\ pc = "idle"
             /\ Live(pline) = {}
             /\ pline' = pline
       /\ (pc = "idle" /\ pline.err = None /\ Live(pline) = {}) => pc' = "stopped"
       /\ (pc = "idle" /\ pc' = "ticking") =>
             /\ Live(pline) # {}
             /\ pline'.nticks = pline.nticks
       /\ (pc = "ticking" /\ pc' = "idle" /\ pline'.err = None) =>
             /\ pline'.nticks = pline.nticks + 1
             /\ pline'.ret = pline.ret
       /\ pc = "stopped" => UNCHANGED vars]_vars

\* tick_gen ended after more than one tick, a stage having executed
C16_Witness ==
    /\ pc = "stopped"
    /\ pline.nticks > 1
    /\ Live(pline) = {}
    /\ pline.flushed = <<>>
    /\ \E s \in DOMAIN pline.hist : pline.hist[s] # <<>>

\* the iteration stage s attempts in the next tick: the one it stalled at,
\* or the next one of its loop; Nil when the loop gives none
NextAttempt(p, s) ==
    LET ai == p.access_i[s]
        l == loop(ai, p.loop_inp_limit) IN
    IF ai.st = "STALLED" THEN IterIdx(ai, ai.inp, ai.k)
    ELSE IF ai.st = "RUNNING" /\ l.out = "step" THEN IterIdx(ai, l.inp, l.k)
    ELSE Nil

\* between ticks, the iteration stage s attempts next is one that the
\* watermark of a tracked object does not allow, no write is pending and the
\* writer of that object is exhausted: the trigger the watermark waits for
\* is never observed
Starved(p, s) ==
    /\ s \in Live(p)
    /\ p.writes = <<>>
    /\ NextAttempt(p, s) # Nil
    /\ \E o \in Tracked(p, s) :
          /\ p.p_objs[o].writer \notin Live(p)
          /\ \/ p.obj_max_iter[s][o] = Nil
             \/ ~LexLeq(NextAttempt(p, s), p.obj_max_iter[s][o])

\* C18: a reader whose next trigger is never observed reports none in the
\* next tick, which raises nothing, executes nothing for it and leaves it
\* live and waiting as before, so the same holds for every later tick; the
\* pipeline does not signal termination while a stage waits
C18_UnmetDependencyStallsForever ==
    /\ (pc = "idle" /\ pline.err = None) =>
          \A s \in DOMAIN pline.hist :
              Starved(pline, s) =>
                  LET q == tick(pline, pline.stage_ticks) IN
                  /\ q.err = None
                  /\ q.ret[s] = Nil
                  /\ q.hist[s] = pline.hist[s]
                  /\ q.access_i[s].st = "STALLED"
                  /\ NextAttempt(q, s) = NextAttempt(pline, s)
                  /\ Starved(q, s)
    /\ pc = "stopped" =>
          \A s \in DOMAIN pline.hist : pline.access_i[s].st # "STALLED"

\* a reader waits at an iteration it reached after executing others, and
\* the last tick, in which it waited too, found its writer exhausted already
C18_Witness ==
    /\ pc = "idle" /\ pline.err = None
    /\ \E s \in DOMAIN pline.hist :
          /\ Starved(pline, s)
          /\ pline.access_i[s].st = "STALLED"
          /\ pline.hist[s] # <<>>
          /\ pline.ret[s] = Nil
          /\ \E o \in Tracked(pline, s) : pline.p_objs[o].writer \notin DOMAIN pline.ret

\* a stage none of whose read objects has a writer
ReadsInputsOnly(p, s) == \A o \in p.si[s].ro_objs : p.p_objs[o].writer = None

\* C19: an object that has a reader and no writer is not among the objects
\* its reader tracks a watermark for; a stage all of whose read objects
\* have no writer never stalls: as long as it is live it has executed one
\* iteration in every tick, and it leaves the live stages only with its
\* budget of passes executed
C19_WriterlessReadsNeverStall ==
    (pline.err = None /\ pc \in {"idle", "ticking", "stopped"}) =>
        \A s \in DOMAIN pline.hist :
            /\ \A o \in pline.si[s].ro_objs :
                  pline.p_objs[o].writer = None =>
                      /\ o \notin Tracked(pline, s)
                      /\ o \in DOMAIN pline.core[s].objs
            /\ ReadsInputsOnly(pline, s) =>
                  /\ Tracked(pline, s) = {}
                  /\ pline.access_i[s].st # "STALLED"
                  /\ (pc = "idle" /\ s \in Live(pline)) =>
                        Len(pline.hist[s]) = pline.nticks
                  /\ (pc = "ticking" /\ s \in Live(pline) /\ s \in DOMAIN pline.ret) =>
                        /\ pline.ret[s] # Nil
                        /\ Len(pline.hist[s]) = pline.nticks + 1
                  /\ s \notin Live(pline) =>
                        /\ pline.loop_inp_limit # Nil
                        /\ Len(pline.hist[s]) = Budget(pline, s)

\* a stage that reads inputs only is live in its second pass, having
\* executed in every tick, while the stage it feeds has stalled
C19_Witness ==
    /\ pc = "idle" /\ pline.err = None
    /\ \E s \in Live(pline) :
          /\ ReadsInputsOnly(pline, s)
          /\ pline.si[s].ro_objs # {}
          /\ Len(pline.hist[s]) = pline.nticks
          /\ pline.nticks > PassLen(pline.access_i[s].fns)
          /\ \E r \in Live(pline) : pline.access_i[r].st = "STALLED"

\* every object stage s tracks has a watermark that is set and at least idx
BehindEveryWatermark(p, s, idx) ==
    \A o \in Tracked(p, s) :
        /\ p.obj_max_iter[s][o] # Nil
        /\ LexLeq(idx, p.obj_max_iter[s][o])

\* the tick of stage s that gave q found the reads of its iteration not ready
StalledIn(q, s) ==
    /\ q.err = None
    /\ q.access_i[s].st = "STALLED"
    /\ q.ret[s] = Nil

\* C26: the stage about to be ticked finds the reads of the iteration idx it
\* attempts ready if and only if every object it tracks has a watermark that
\* is set and lexicographically at least idx: it stalls whenever the
\* watermark of some tracked object is unset or below idx, and it does not
\* stall otherwise, in particular when it tracks no object
C26_ReadyIffBehindEveryWatermark ==
    (pc = "ticking" /\ pline.err = None /\ todo # <<>>) =>
        LET s == Head(todo)
            idx == NextAttempt(pline, s)
            q == tick_gen(pline, s)
        IN  idx # Nil =>
               /\ StalledIn(q, s) <=> ~BehindEveryWatermark(pline, s, idx)
               /\ (\E o \in Tracked(pline, s) : pline.obj_max_iter[s][o] = Nil)
                     => StalledIn(q, s)
               /\ Tracked(pline, s) = {} => ~StalledIn(q, s)
               /\ ~StalledIn(q, s) =>
                     \/ q.err # None
                     \/ /\ q.ret[s] = idx
                        /\ q.hist[s] = Append(pline.hist[s], idx)

\* the stage about to be ticked tracks two objects and has executed
\* nothing: the watermark of one is set and at least the iteration the stage
\* attempts, the watermark of the other is unset
C26_Witness ==
    /\ pc = "ticking" /\ pline.err = None /\ todo # <<>>
    /\ LET s == Head(todo)
           idx == NextAttempt(pline, s)
       IN  /\ idx # Nil
           /\ \E o1, o2 \in Tracked(pline, s) :
                 /\ pline.obj_max_iter[s][o1] # Nil
                 /\ LexLeq(idx, pline.obj_max_iter[s][o1])
                 /\ pline.obj_max_iter[s][o2] = Nil
           /\ pline.hist[s] = <<>>

\* the locations of the writes to object o the last flush delivered to
\* stage s, in the order of delivery
Observed(p, s, o) ==
    LET sel == SelectSeq(p.cb_log, LAMBDA e : e[1] = s /\ e[2] = o)
    IN  [i \in DOMAIN sel |-> sel[i][3]]

\* the number of (trigger, bound) pairs stage s has matched for object o
MatchCount(p, s, o) ==
    p.max_iter_gs[s][o].inp * Len(p.loctomaxiter_rel[s][o])
        + p.max_iter_gs[s][o].k - 1

\* pair number m of the enumeration of fn repeated pass after pass, from 0
PairAt(fn, m) == fn[(m % Len(fn)) + 1]

\* the number of pairs matched once the writes ws have been observed in
\* order, m pairs having been matched before
RECURSIVE MatchedAfter(_, _, _)
MatchedAfter(fn, m, ws) ==
    IF ws = <<>> THEN m
    ELSE IF Head(ws) = PairAt(fn, m)[1] THEN MatchedAfter(fn, m + 1, Tail(ws))
    ELSE MatchedAfter(fn, m, Tail(ws))

\* C27: over a flush that raises nothing, every observed write that equals
\* the next expected trigger moves the expectation on by one pair and no
\* other write moves it, the pairs being expected in enumeration order pass
\* after pass; the outer-pass counter is the number of completed
\* enumerations, and after a match the watermark is the pass counter of the
\* last matched pair followed by its bound
C27_MatchSetsWatermarkAdvancesOnePair ==
    [][(pc = "ticking" /\ todo = <<>> /\ pline.err = None /\ pline'.err = None) =>
          \A s \in Consumers(pline) : \A o \in Tracked(pline, s) :
              LET fn == pline.loctomaxiter_rel[s][o]
                  m == MatchCount(pline, s, o)
                  n == MatchedAfter(fn, m, Observed(pline', s, o))
              IN  /\ MatchCount(pline', s, o) = n
                  /\ pline'.max_iter_gs[s][o].inp = n \div Len(fn)
                  /\ pline'.max_iter_gs[s][o].k = (n % Len(fn)) + 1
                  /\ n > m => pline'.obj_max_iter[s][o]
                                 = <<(n - 1) \div Len(fn)>> \o PairAt(fn, n - 1)[2]]_vars

\* a flush has matched the last pair of the first pass of a relation of
\* more than one pair: the pass counter is 1, the first pair is expected
\* again, and the watermark is that of the first pass
C27_Witness ==
    /\ pc = "idle" /\ pline.err = None
    /\ \E s \in Consumers(pline) : \E o \in Tracked(pline, s) :
          /\ Len(pline.loctomaxiter_rel[s][o]) > 1
          /\ pline.max_iter_gs[s][o] = [inp |-> 1, k |-> 1]
          /\ pline.obj_max_iter[s][o][1] = 0
          /\ Observed(pline, s, o) # <<>>
          /\ pline.wm_tick[s][o] = pline.nticks - 1

\* C28: over a flush in which no write to an object observed by its reader
\* equals the trigger the reader expected next, the watermark of the object,
\* the expectation cursor and the outer-pass counter are what they were, and
\* the flush raises nothing
C28_UnexpectedWriteDiscarded ==
    [][(pc = "ticking" /\ todo = <<>> /\ pline.err = None) =>
          \A s \in Consumers(pline) : \A o \in Tracked(pline, s) :
              LET fn == pline.loctomaxiter_rel[s][o]
                  ws == Observed(pline', s, o)
              IN  (\A i \in DOMAIN ws :
                      ws[i] # fn[pline.max_iter_gs[s][o].k][1]) =>
                      /\ pline'.max_iter_gs[s][o] = pline.max_iter_gs[s][o]
                      /\ pline'.obj_max_iter[s][o] = pline.obj_max_iter[s][o]
                      /\ pline'.wm_tick[s][o] = pline.wm_tick[s][o]
                      /\ pline'.err = None]_vars

\* the last flush delivered a write to an object whose reader has matched
\* no trigger yet: the write was discarded
C28_Witness ==
    /\ pc = "idle" /\ pline.err = None
    /\ \E s \in Consumers(pline) : \E o \in Tracked(pline, s) :
          /\ Observed(pline, s, o) # <<>>
          /\ pline.obj_max_iter[s][o] = Nil
          /\ pline.max_iter_gs[s][o] = [inp |-> 0, k |-> 1]

\* C31: a tick of a stage that reports none because the reads of the
\* iteration it attempts are not ready changes nothing but the report: the
\* pending writes, the arrays of the stage and of every other stage, the
\* watermarks and the executed iterations are what they were, the iteration
\* the stage attempts next is the same one, and a stage that was waiting
\* already has its access iterator untouched (one that was not has pulled
\* the joined step it now waits at, and nothing more)
C31_StallTickHasNoEffect ==
    (pc = "ticking" /\ pline.err = None /\ todo # <<>>) =>
        LET s == Head(todo)
            q == tick_gen(pline, s)
        IN  StalledIn(q, s) =>
               /\ q.writes = pline.writes
               /\ q.core = pline.core
               /\ q.hist = pline.hist
               /\ NextAttempt(q, s) = NextAttempt(pline, s)
               /\ pline.access_i[s].st = "STALLED" =>
                     q.access_i[s] = pline.access_i[s]
               /\ [q EXCEPT !.ret = pline.ret,
                            !.access_i[s] = pline.access_i[s]] = pline

\* a stage that has executed iterations before is ticked, in execute mode,
\* after another stage has issued writes in this tick, and reports none
C31_Witness ==
    /\ pc = "ticking" /\ pline.err = None /\ todo # <<>>
    /\ pline.execute_ops
    /\ pline.writes # <<>>
    /\ pline.hist[Head(todo)] # <<>>
    /\ StalledIn(tick_gen(pline, Head(todo)), Head(todo))

\* a pipeline of one stage with one MxV operation that reads an object no
\* stage writes and writes an object no stage reads
SingleMxV(p) ==
    /\ Len(p.stages) = 1
    /\ p.op_tys[p.stages[1]] = <<"MxV">>
    /\ Cardinality(InputObjs(p)) = 1
    /\ Cardinality(DOMAIN p.orphan_objs) = 1
    /\ DOMAIN p.p_objs = InputObjs(p) \cup DOMAIN p.orphan_objs

\* row i of M times x
RowTimes(m, x, i) ==
    SumSeq([j \in 1..x.shape[1] |-> m.data[<<i, j - 1>>] * x.data[<<j - 1>>]])

\* C7: a configured single-stage MxV pipeline in execute mode holds M x in
\* the output object once the first tick in which its stage ran is over (a
\* pass limit of 0 runs nothing)
C7_MxVComputesProduct ==
    (/\ SingleMxV(pline) /\ pline.execute_ops /\ pline.err = None
     /\ pc = "idle" /\ pline.nticks >= 1
     /\ pline.hist[pline.stages[1]] # <<>>) =>
        LET x == get_object(pline, CHOOSE o \in InputObjs(pline) : TRUE)
            y == get_object(pline, CHOOSE o \in DOMAIN pline.orphan_objs : TRUE)
            m == pline.core[pline.stages[1]].xbar_m
        IN  /\ m # Nil
            /\ m.shape = <<y.shape[1], x.shape[1]>>
            /\ \A i \in 0..(y.shape[1] - 1) : y.data[<<i>>] = RowTimes(m, x, i)

C7_Witness ==
    /\ SingleMxV(pline) /\ pline.execute_ops /\ pline.err = None
    /\ pc = "idle" /\ pline.nticks = 1
    /\ LET y == get_object(pline, CHOOSE o \in DOMAIN pline.orphan_objs : TRUE)
       IN  \E i, j \in DOMAIN y.data : y.data[i] > y.data[j] /\ y.data[j] > 0

\* the writes of the last flush that went to an object no stage reads
OrphanWrites(p) ==
    {i \in DOMAIN p.flushed : p.p_objs[p.flushed[i][1]].reader = None}

\* the write of the last flush that is the last one to its location
LastTo(p, i) ==
    \A h \in DOMAIN p.flushed :
        (h > i /\ p.flushed[h][1] = p.flushed[i][1]) => p.flushed[h][2] # p.flushed[i][2]

AfterFlush == pc = "idle" /\ pline.nticks >= 1 /\ pline.err = None

\* no write-callback of the last flush was for an orphan object
NoOrphanCallback(p) ==
    \A i \in OrphanWrites(p) : \A c \in DOMAIN p.cb_log :
        p.cb_log[c][2] # p.flushed[i][1]

\* C8 as claimed: at the end of a flush every write to an orphan object has
\* its value in the orphan buffer at the written index, and no
\* write-callback ran for it
C8_EveryOrphanWriteStored ==
    AfterFlush =>
        /\ NoOrphanCallback(pline)
        /\ \A i \in OrphanWrites(pline) :
              LET w == pline.flushed[i] IN
              /\ w[3] # Nil
              /\ LastTo(pline, i) => ArrGet(pline.orphan_objs[w[1]], w[2]) = w[3][1]

\* C8, amended: at the end of a flush every write to an orphan object that
\* carries a value has that value in the orphan buffer at the written
\* index; in validate mode, where writes carry no value, the orphan buffers
\* stay as constructed; no write-callback runs for an orphan write
C8_ValuedOrphanWriteStored ==
    AfterFlush =>
        /\ NoOrphanCallback(pline)
        /\ \A i \in OrphanWrites(pline) :
              LET w == pline.flushed[i] IN
              /\ (w[3] # Nil) = pline.execute_ops
              /\ (w[3] # Nil /\ LastTo(pline, i)) =>
                    ArrGet(pline.orphan_objs[w[1]], w[2]) = w[3][1]
        /\ ~pline.execute_ops =>
              \A o \in DOMAIN pline.orphan_objs :
                  pline.orphan_objs[o] = np_zeros(pline.p_objs[o].shape)

C8_Witness ==
    /\ AfterFlush
    /\ \E i \in OrphanWrites(pline) :
          /\ pline.flushed[i][3] # Nil
          /\ pline.flushed[i][3][1] > 0
          /\ pline.cb_log # <<>>

(***************************************************************************)
(* The construction of a StageInfo, one access at a time.                  *)
(***************************************************************************)
ScanObjs == {"a", "b", "c"}

ScanAccesses == {[a_ty |-> t, obj |-> o, rel |-> {}] : t \in {"RD", "WR"}, o \in ScanObjs}

InitScan ==
    /\ \E accs \in [1..MaxAcc -> ScanAccesses] :
          scan = [todo |-> accs, done |-> <<>>, si |-> SIEmpty]
    /\ pline = Nil
    /\ pc = "scan"
    /\ todo = <<>>
    /\ twin = Nil

\* one turn of the loop over the accesses
ScanStep ==
    /\ pc = "scan"
    /\ scan.todo # <<>>
    /\ scan.si.err = None
    /\ scan' = [todo |-> Tail(scan.todo),
                done |-> Append(scan.done, Head(scan.todo)),
                si |-> SIStep(scan.si, Head(scan.todo))]
    /\ UNCHANGED <<pline, pc, todo, twin>>

NextScan == ScanStep

SpecScan == InitScan /\ [][NextScan]_vars

\* C10 as claimed: a stage that was constructed has its three object sets
\* pairwise disjoint, and together they are the objects its accesses name
C10_ObjectSetsPartition ==
    (pc = "scan" /\ scan.todo = <<>> /\ scan.si.err = None) =>
        /\ scan.si.ro_objs \cap scan.si.wo_objs = {}
        /\ scan.si.ro_objs \cap scan.si.rw_objs = {}
        /\ scan.si.wo_objs \cap scan.si.rw_objs = {}
        /\ scan.si.ro_objs \cup scan.si.wo_objs \cup scan.si.rw_objs
              = {scan.done[i].obj : i \in DOMAIN scan.done}

\* C11 as claimed: a stage that was constructed has, in its access scan, no
\* write to an object that an earlier access of the scan wrote or read, so
\* it writes each object at most once
C11_RewriteRejected ==
    (pc = "scan" /\ scan.todo = <<>> /\ scan.si.err = None) =>
        \A i \in DOMAIN scan.done :
            scan.done[i].a_ty = "WR" =>
                \A h \in 1..(i - 1) : scan.done[h].obj # scan.done[i].obj

(***************************************************************************)
(* The construction of a stage from a list of operations: StageInfo(ops)   *)
(* returns the stage or raises, and then there is no stage.                *)
(***************************************************************************)
MaxOps == 2

OpTys == {"MxV", "ADD"}

OpStages == {"S1", "S2"}

OpAccessLists ==
    {<<RD_a("a", {}), WR_a("b", {})>>,
     <<RD_a("b", {}), WR_a("c", {})>>,
     <<WR_a("a", {})>>}

OpInfos == {OpInfo(t, s, as) : t \in OpTys, s \in OpStages, as \in OpAccessLists}

OpLists == UNION {[1..n -> OpInfos] : n \in 0..MaxOps}

InitStage ==
    /\ \E ops \in OpLists : scan = [ops |-> ops, si |-> Nil, err |-> None]
    /\ pline = Nil
    /\ pc = "new"
    /\ todo = <<>>
    /\ twin = Nil

\* si = StageInfo(ops): an error leaves the caller without a stage
ConstructStage ==
    /\ pc = "new"
    /\ LET si == StageInfo(scan.ops) IN
          scan' = [scan EXCEPT !.si = IF si.err = None THEN si ELSE Nil,
                               !.err = si.err]
    /\ pc' = "made"
    /\ UNCHANGED <<pline, todo, twin>>

NextStage == ConstructStage

SpecStage == InitStage /\ [][NextStage]_vars

\* C12: constructing a stage from an empty operation list, or from a list
\* whose first operation is not MxV, raises an error (ValueError) and
\* yields no stage
C12_FirstOpMustBeMxV ==
    (pc = "made" /\ (scan.ops = <<>> \/ scan.ops[1].op_ty # "MxV")) =>
        /\ scan.err = "ValueError"
        /\ scan.si = Nil

\* a list of two operations that starts with ADD was refused
C12_Witness ==
    /\ pc = "made"
    /\ Len(scan.ops) = MaxOps
    /\ scan.ops[1].op_ty = "ADD"
    /\ scan.err # None
    /\ scan.si = Nil

(***************************************************************************)
(* The construction of a pipeline from two stages that may name the same   *)
(* objects: Pipeline(stages, objs_info) returns the pipeline or raises.    *)
(***************************************************************************)
WireAccesses ==
    {[a_ty |-> t, obj |-> o, rel |-> Shift(NIter, 0)] :
        t \in {"RD", "WR"}, o \in ScanObjs}

\* a first stage of three accesses and a second one of two, with the same
\* name or another
WirePipes ==
    {[name |-> "wire",
      stages |-> << <<OpInfo("MxV", "S1", <<x, y, z>>)>>,
                    <<OpInfo("MxV", n, <<u, v>>)>> >>,
      objs_info |-> [o \in ScanObjs |-> <<NIter>>]] :
        x \in WireAccesses, y \in WireAccesses, z \in WireAccesses,
        u \in WireAccesses, v \in WireAccesses, n \in OpStages}

InitBuild ==
    /\ \E pipe \in WirePipes : scan = [pipe |-> pipe]
    /\ pline = Nil
    /\ pc = "new"
    /\ todo = <<>>
    /\ twin = Nil

\* p = Pipeline(stages, objs_info): an error leaves the caller without a
\* pipeline
ConstructPipeline ==
    /\ pc = "new"
    /\ \E err \in BuildErrs(scan.pipe) :
          pline' = IF err = None THEN Build(scan.pipe, FALSE, Nil)
                   ELSE [err |-> err]
    /\ pc' = "built"
    /\ UNCHANGED <<scan, todo, twin>>

NextBuild == ConstructPipeline

SpecBuild == InitBuild /\ [][NextBuild]_vars

\* the objects stage i of the argument reads, and those it writes
ReadBy(pipe, i) ==
    {a.obj : a \in {b \in Range(AllAccesses(pipe.stages[i])) : b.a_ty = "RD"}}
WrittenBy(pipe, i) ==
    {a.obj : a \in {b \in Range(AllAccesses(pipe.stages[i])) : b.a_ty = "WR"}}

\* C13: the construction of a pipeline raises when two stages write the
\* same object or two stages read the same object; in a constructed
\* pipeline the reader of an object is the one stage that reads it and its
\* writer the one stage that writes it, and an object is allocated as
\* internal exactly when its reader and its writer are both set and equal
C13_OneReaderOneWriter ==
    pc = "built" =>
        LET pipe == scan.pipe
            ix == DOMAIN pipe.stages
        IN
        /\ (\E i, j \in ix :
               /\ i # j
               /\ \/ ReadBy(pipe, i) \cap ReadBy(pipe, j) # {}
                  \/ WrittenBy(pipe, i) \cap WrittenBy(pipe, j) # {})
              => pline.err # None
        /\ pline.err = None =>
              \A o \in DOMAIN pline.p_objs :
                 /\ \A i \in ix :
                       /\ o \in ReadBy(pipe, i)
                            <=> pline.p_objs[o].reader = StageName(pipe.stages[i])
                       /\ o \in WrittenBy(pipe, i)
                            <=> pline.p_objs[o].writer = StageName(pipe.stages[i])
                 /\ (\E s \in DOMAIN pline.core :
                        o \in DOMAIN pline.core[s].internal_objs)
                      <=> /\ pline.p_objs[o].reader # None
                          /\ pline.p_objs[o].writer # None
                          /\ pline.p_objs[o].reader = pline.p_objs[o].writer
                 /\ is_internal(pline.p_objs[o])
                      <=> \E s \in DOMAIN pline.core :
                             o \in DOMAIN pline.core[s].internal_objs

\* two stages that read the same object and write different ones were
\* refused
C13_Witness ==
    /\ pc = "built"
    /\ ReadBy(scan.pipe, 1) \cap ReadBy(scan.pipe, 2) # {}
    /\ WrittenBy(scan.pipe, 1) \cap WrittenBy(scan.pipe, 2) = {}
    /\ \A i \in DOMAIN scan.pipe.stages : StageInfo(scan.pipe.stages[i]).err = None
    /\ StageNames(scan.pipe) = OpStages
    /\ pline.err = "TypeError"

(***************************************************************************)
(* The caller that ticks until the pipeline stops                          *)
(* (test_conv2d_conv2d: while True: tick()): a tick that can start starts, *)
(* and a tick that started runs to its end.                                *)
(***************************************************************************)
\* a tick() call that started returns or raises: the loop over the stages
\* and the flush are straight-line code
TickReturns == []<>(pc # "ticking" \/ pline.err # None)

FairSpec == Spec /\ WF_vars(TickBegin) /\ WF_vars(TickStop) /\ TickReturns

AllStageNames == UNION {StageNames(pipe) : pipe \in Pipelines}

\* the locations stage w writes to object o, in the order it writes them
RECURSIVE Flatten(_)
Flatten(ss) == IF ss = <<>> THEN <<>> ELSE Head(ss) \o Flatten(Tail(ss))

WriteOrder(p, w, o) ==
    LET f == SelectSeq(p.access_i[w].fns, LAMBDA x : x.a_ty = "WR" /\ x.obj = o)
    IN  IF f = <<>> THEN <<>>
        ELSE Flatten([k \in DOMAIN f[1].stream |-> f[1].stream[k][2]])

FirstAt(seq, x) == CHOOSE i \in DOMAIN seq : seq[i] = x /\ \A h \in 1..(i - 1) : seq[h] # x

\* the triggers of every watermark relation of stage s come in the order
\* the producer writes them
TriggersInWriteOrder(p, s) ==
    \A o \in Tracked(p, s) :
        LET fn == p.loctomaxiter_rel[s][o]
            wo == WriteOrder(p, p.p_objs[o].writer, o)
        IN  /\ fn # <<>>
            /\ \A i \in DOMAIN fn : fn[i][1] \in Range(wo)
            /\ \A i, j \in DOMAIN fn :
                  i < j => FirstAt(wo, fn[i][1]) < FirstAt(wo, fn[j][1])

\* stage s waits at an iteration its reads are not ready for
Stalled(s) ==
    /\ pline.err = None
    /\ s \in Consumers(pline)
    /\ TriggersInWriteOrder(pline, s)
    /\ pline.loop_inp_limit # Nil
    /\ pline.access_i[s].st = "STALLED"

\* stage s has executed the iteration its position names: the one it
\* stalled at, if it stalled
Executed(s) ==
    /\ s \in DOMAIN pline.hist
    /\ pline.access_i[s].st = "RUNNING"
    /\ pline.hist[s] # <<>>
    /\ pline.hist[s][Len(pline.hist[s])]
          = IterIdx(pline.access_i[s], pline.access_i[s].inp, pline.access_i[s].k)

\* C6 as claimed: where the triggers come in the producer's write order and
\* the caller keeps ticking, an iteration a consumer stalled at is executed
\* in a later tick
C6_StallRecovers ==
    \A s \in AllStageNames : Stalled(s) ~> Executed(s)

\* a pipeline between ticks of its run that a caller can run to its end:
\* every stage has the finite pass limit, every watermark relation has its
\* triggers in the producer's write order, and in execute mode every core
\* is configured
Terminating ==
    /\ pc = "idle" /\ pline.err = None
    /\ pline.nticks > 0
    /\ pline.loop_inp_limit # Nil
    /\ \A s \in Consumers(pline) : TriggersInWriteOrder(pline, s)
    /\ pline.execute_ops => \A s \in DOMAIN pline.core : pline.core[s].xbar_m # Nil

\* C17 as claimed: a pipeline with a finite pass limit whose dependencies
\* resolve, ticked by a caller that keeps ticking, reaches after finitely
\* many ticks the tick that finds no live stage, and tick_gen ends
C17_FiniteLimitTerminates ==
    Terminating ~> (pc = "stopped" /\ Live(pline) = {})

\* one write event without a value per index of every write access of every
\* operation of stage s, at the joined step the stage stands at
EchoedWrites(p, s) ==
    LET ops == ExecOps(p.op_tys[s], p.access_i[s].fns, p.access_i[s].k) IN
    Flatten([i \in DOMAIN ops |->
        Flatten([t \in DOMAIN ops[i].WR |->
            [j \in DOMAIN ops[i].WR[t][2] |->
                <<ops[i].WR[t][1], ops[i].WR[t][2][j], Nil>>]])])

\* C20 as claimed: in validate mode a stage that takes up an iteration,
\* its read indices in range as they are for every pipeline here, raises
\* nothing, and the iteration it has executed has issued one write event
\* without a value per index of every write access of every operation,
\* whatever the number of read accesses of the operation
C20_ValidateEchoesEveryWrite ==
    (pc = "ticking" /\ ~pline.execute_ops) =>
        /\ pline.err = None
        /\ \A s \in DOMAIN pline.ret :
              pline.ret[s] # Nil =>
                  SelectSeq(pline.writes, LAMBDA w : pline.p_objs[w[1]].writer = s)
                      = EchoedWrites(pline, s)

\* the objects internal to stage s
InternalObjs(p, s) == DOMAIN p.core[s].internal_objs

\* the internal arrays of stage s hold what the MxV operations of the
\* joined step the stage stands at write to them
InternalWritesApplied(p, s) ==
    LET c == p.core[s]
        ops == ExecOps(p.op_tys[s], p.access_i[s].fns, p.access_i[s].k) IN
    \A i \in DOMAIN ops : \A t \in DOMAIN ops[i].WR :
        (ops[i].ty = "MxV" /\ ops[i].WR[t][1] \in InternalObjs(p, s)) =>
            LET y == np_matmul(c.xbar_m, read_object(c, ops[i].RD[1][1], ops[i].RD[1][2]))
                wr_is == ops[i].WR[t][2] IN
            \A j \in DOMAIN wr_is :
                ArrGet(c.internal_objs[ops[i].WR[t][1]], wr_is[j]) = y[j]

\* C21 as claimed: in execute mode and in validate mode, no pending write,
\* no flushed write, no write-callback and no watermark is for an object
\* internal to a stage; a stage with internal objects that takes up an
\* iteration executes it, and its internal arrays then hold what the
\* iteration wrote to them
C21_InternalWritesStayInside ==
    /\ \A i \in DOMAIN pline.writes : ~is_internal(pline.p_objs[pline.writes[i][1]])
    /\ \A i \in DOMAIN pline.flushed : ~is_internal(pline.p_objs[pline.flushed[i][1]])
    /\ \A i \in DOMAIN pline.cb_log : ~is_internal(pline.p_objs[pline.cb_log[i][2]])
    /\ \A s \in DOMAIN pline.core : InternalObjs(pline, s) \cap Tracked(pline, s) = {}
    /\ (\E s \in DOMAIN pline.core : InternalObjs(pline, s) # {}) =>
          /\ (pline.execute_ops /\ pline.err = None /\ pc = "ticking") =>
                \A s \in DOMAIN pline.ret :
                    pline.ret[s] # Nil => InternalWritesApplied(pline, s)
          /\ ~pline.execute_ops => pline.err = None

\* C22 as claimed: a configure call that fails leaves the weight matrix of
\* every stage as it was before the call
C22_FailedConfigureChangesNothing ==
    [][(pc = "idle" /\ pc' = "idle" /\ pline.err = None /\ pline'.err # None) =>
          \A s \in DOMAIN pline.core :
              pline'.core[s].xbar_m = pline.core[s].xbar_m]_vars

\* the number of read accesses of operation i of stage s
NumReads(p, s, i) ==
    Len(SelectSeq(p.access_i[s].fns, LAMBDA f : f.op_id = i /\ f.a_ty = "RD"))

\* every MxV of the pipeline has one read access and every ADD two
ArityOk(p) ==
    \A s \in DOMAIN p.op_tys : \A i \in DOMAIN p.op_tys[s] :
        /\ p.op_tys[s][i] = "MxV" => NumReads(p, s, i) = 1
        /\ p.op_tys[s][i] = "ADD" => NumReads(p, s, i) = 2

\* C23 as claimed: construction or configure has failed for a pipeline with
\* an operation of the wrong number of read accesses, so that no tick
\* starts on one
C23_ArityCheckedBeforeTicks ==
    pc \in {"ticking", "stopped"} => ArityOk(pline)

(***************************************************************************)
(* A run whose caller, between two ticks, asks the pipeline for an object  *)
(* by name: scan holds the name and what get_object gave for it.           *)
(***************************************************************************)
\* the names a caller asks for: the declared objects and one more
AskedNames(p) == DOMAIN p.p_objs \cup {"undeclared"}

GetObject ==
    /\ pc = "idle"
    /\ \E objstr \in AskedNames(pline) :
          scan' = [name |-> objstr, got |-> get_object_ref(pline, objstr)]
    /\ pc' = "got"
    /\ UNCHANGED <<pline, todo, twin>>

NextGet == Next \/ GetObject

SpecGet == Init /\ [][NextGet]_vars

\* C24 as claimed: for an object whose reader and writer are the same
\* stage, get_object does not return the array the stage keeps for it among
\* its internal objects; for a name that is not a declared object
\* get_object raises
C24_InternalArrayNotExposed ==
    pc = "got" =>
        /\ (scan.name \in DOMAIN pline.p_objs /\ is_internal(pline.p_objs[scan.name])) =>
              \/ scan.got.err # None
              \/ scan.got.ref[1] # "internal_objs"
        /\ scan.name \notin DOMAIN pline.p_objs => scan.got.err # None

\* idx has a component below 0 or not less than the dimension of shape
OutOfShape(shape, idx) ==
    \E d \in DOMAIN idx : idx[d] < 0 \/ idx[d] >= shape[d]

\* the <<object, index>> pairs stage s reads at the joined step it stands at
ReadIdxs(p, s) ==
    LET ops == ExecOps(p.op_tys[s], p.access_i[s].fns, p.access_i[s].k) IN
    UNION {UNION {{<<ops[i].RD[t][1], ops[i].RD[t][2][j]>> :
                      j \in DOMAIN ops[i].RD[t][2]} :
                  t \in DOMAIN ops[i].RD} : i \in DOMAIN ops}

\* C25 as claimed: a read index of an iteration a stage has taken up, or
\* the index of a write a flush has delivered, that has a component outside
\* the declared shape of its object (below 0 or not less than the
\* dimension) has raised an error
C25_OutOfShapeIndexAborts ==
    /\ \A s \in DOMAIN pline.access_i :
          (pline.access_i[s].st = "RUNNING" /\ pline.access_i[s].k > 0) =>
              \A r \in ReadIdxs(pline, s) :
                  OutOfShape(pline.p_objs[r[1]].shape, r[2]) => pline.err # None
    /\ pc = "idle" =>
          \A i \in DOMAIN pline.flushed :
              OutOfShape(pline.p_objs[pline.flushed[i][1]].shape,
                         pline.flushed[i][2]) => pline.err # None

\* the locations of the pending writes to object o, oldest first
IssuedTo(p, o) ==
    LET sel == SelectSeq(p.writes, LAMBDA w : w[1] = o)
    IN  [i \in DOMAIN sel |-> sel[i][2]]

\* the locations stage w writes to object o at the joined step it stands
\* at, in the order of its write accesses
StepWrites(p, w, o) ==
    LET ops == ExecOps(p.op_tys[w], p.access_i[w].fns, p.access_i[w].k) IN
    Flatten([i \in DOMAIN ops |->
        Flatten([t \in DOMAIN ops[i].WR |->
            IF ops[i].WR[t][1] = o THEN ops[i].WR[t][2] ELSE <<>>])])

\* C32: when the flush of a tick runs, the pending writes to an object are
\* the locations its writer wrote in the iteration it executed in this tick,
\* in the order of the iteration (none if the writer executed nothing), and
\* a flush that raises nothing has the reader's write-callback observe
\* exactly these locations in exactly this order; with one flush per tick
\* and the writer's iterations in order, this is the issue order across
\* all ticks
C32_FlushKeepsIssueOrder ==
    [][(pc = "ticking" /\ todo = <<>> /\ pline.err = None /\ pline'.err = None) =>
          \A o \in DOMAIN pline.p_objs :
              LET r == pline.p_objs[o].reader
                  w == pline.p_objs[o].writer
              IN  (r # None /\ w # None /\ ~is_internal(pline.p_objs[o])) =>
                     /\ Observed(pline', r, o) = IssuedTo(pline, o)
                     /\ IssuedTo(pline, o) =
                           IF w \in DOMAIN pline.ret /\ pline.ret[w] # Nil
                           THEN StepWrites(pline, w, o) ELSE <<>>]_vars

\* the last flush delivered two writes to one object, to different
\* locations, and the reader matched both: its watermark was set by it
C32_Witness ==
    /\ pc = "idle" /\ pline.err = None
    /\ \E s \in Consumers(pline) : \E o \in Tracked(pline, s) :
          /\ Len(Observed(pline, s, o)) = 2
          /\ Observed(pline, s, o)[1] # Observed(pline, s, o)[2]
          /\ pline.obj_max_iter[s][o] # Nil
          /\ pline.wm_tick[s][o] = pline.nticks - 1

\* location loc of object o as numpy resolves it
Resolved(p, o, loc) ==
    [d \in DOMAIN loc |->
        IF loc[d] < 0 THEN loc[d] + p.p_objs[o].shape[d] ELSE loc[d]]

\* the locations of object o stage s accesses in direction a_ty at the
\* joined step of iteration idx
LocsAt(p, s, a_ty, o, idx) ==
    LET fns == p.access_i[s].fns
        k == CHOOSE k \in DOMAIN fns[1].stream : fns[1].stream[k][1] = Tail(idx)
    IN  UNION {{Resolved(p, o, fns[t].stream[k][2][j]) :
                   j \in DOMAIN fns[t].stream[k][2]} :
               t \in {u \in DOMAIN fns : fns[u].a_ty = a_ty /\ fns[u].obj = o}}

\* the iterations of stage w whose writes a flush has delivered: all it has
\* executed but the one of the tick under way
FlushedIters(p, w) ==
    IF pc = "ticking" /\ w \in DOMAIN p.ret /\ p.ret[w] # Nil
    THEN SubSeq(p.hist[w], 1, Len(p.hist[w]) - 1)
    ELSE p.hist[w]

\* the pass in which stage w wrote what location loc of object o holds, Nil
\* if it has not written it
PassOfValue(p, w, o, loc) ==
    LET h == FlushedIters(p, w)
        I == {i \in DOMAIN h : loc \in LocsAt(p, w, "WR", o, h[i])}
    IN  IF I = {} THEN Nil
        ELSE <<h[CHOOSE i \in I : \A j \in I : j <= i][1]>>

\* stage w writes location loc of object o in some iteration
EverWritten(p, w, o, loc) ==
    \E t \in DOMAIN p.access_i[w].fns :
        LET f == p.access_i[w].fns[t] IN
        /\ f.a_ty = "WR" /\ f.obj = o
        /\ \E k \in DOMAIN f.stream : \E j \in DOMAIN f.stream[k][2] :
              Resolved(p, o, f.stream[k][2][j]) = loc

\* C34 as claimed: in a two-stage pipeline, when the second stage has
\* executed an iteration of pass p in the tick under way, every location
\* it read for it that the first stage writes holds what the first stage
\* wrote in its pass p
C34_ReadsValuesOfOwnPass ==
    (pc = "ticking" /\ pline.err = None /\ Len(pline.stages) = 2) =>
        \A r \in DOMAIN pline.ret :
            pline.ret[r] # Nil =>
                \A o \in Tracked(pline, r) :
                    LET w == pline.p_objs[o].writer IN
                    \A loc \in LocsAt(pline, r, "RD", o, pline.ret[r]) :
                        EverWritten(pline, w, o, loc) =>
                            PassOfValue(pline, w, o, loc) = <<pline.ret[r][1]>>

\* C30 as claimed: whenever no tick is under way, and whenever a tick has
\* failed, the pending-write buffer is empty
C30_BufferEmptyAfterTick ==
    (pc \in {"idle", "stopped"} \/ (pc = "ticking" /\ pline.err # None)) =>
        pline.writes = <<>>

(***************************************************************************)
(* AccessIterator.loop on its own: the access iterator of one stage whose  *)
(* three accesses have any iteration domains, pulled until it stops or     *)
(* raises.                                                                 *)
(***************************************************************************)
\* an access relation over the iterations D: iteration o accesses location o
Over(D) == {<<(<<o>>), (<<o>>)>> : o \in D}

LoopDomains == SUBSET (0..(NIter - 1))

\* the streams of a stage with one MxV whose accesses have the domains D
LoopFns(D) ==
    StageFns(<<OpInfo("MxV", "S", <<RD_a("x", Over(D[1])),
                                    WR_a("y", Over(D[2])),
                                    WR_a("z", Over(D[3]))>>)>>, 1)

InitLoop ==
    /\ \E D \in [1..3 -> LoopDomains], l \in Limits :
          scan = [ai |-> [fns |-> LoopFns(D), inp |-> 0, k |-> 0, stale |-> FALSE],
                  limit |-> l, out |-> None, steps |-> <<>>]
    /\ pline = Nil
    /\ pc = "loop"
    /\ todo = <<>>
    /\ twin = Nil

\* next() on the generator loop() returned
LoopNext ==
    /\ pc = "loop"
    /\ scan.ai.inp <= MaxPass
    /\ LET l == loop(scan.ai, scan.limit) IN
          /\ scan' = [scan EXCEPT
                         !.ai.inp = l.inp, !.ai.k = l.k, !.ai.stale = l.stale,
                         !.out = l.out,
                         !.steps = IF l.out = "step"
                                   THEN Append(@, IterIdx(scan.ai, l.inp, l.k))
                                   ELSE @]
          /\ pc' = IF l.out = "step" THEN "loop"
                   ELSE IF l.out = "stop" THEN "ended" ELSE "raised"
    /\ UNCHANGED <<pline, todo, twin>>

NextLoop == LoopNext

SpecLoop == InitLoop /\ [][NextLoop]_vars

\* every stream has an entry number k, and all of them for one index
SameIdxAt(fns, k) ==
    /\ \A t \in DOMAIN fns : k <= Len(fns[t].stream)
    /\ \A t, u \in DOMAIN fns : fns[t].stream[k][1] = fns[u].stream[k][1]

\* C29: the joined step the iterator has emitted is one for which every
\* stream produced an entry, all for the index the step carries, and so
\* were the steps of the pass before it; an iterator whose streams produce
\* different indices at a step they all reach raises when it is pulled for
\* that step, and one whose pass has no joined step raises when pulled, so
\* that a run that ends without an error had a pass limit of 0 or a pass of
\* at least one joined step, the streams agreeing on every step of it
C29_JoinedStepsAgree ==
    LET fns == scan.ai.fns
        l == loop(scan.ai, scan.limit)
    IN  /\ (pc = "loop" /\ scan.out = "step") =>
              /\ \A k \in 1..scan.ai.k : SameIdxAt(fns, k)
              /\ scan.steps[Len(scan.steps)]
                    = <<scan.ai.inp>> \o fns[1].stream[scan.ai.k][1]
        /\ (pc = "loop" /\ scan.limit # <<0>>) =>
              /\ (scan.ai.k < PassLen(fns) /\ ~SameIdxAt(fns, scan.ai.k + 1))
                    => l.out = "AssertionError"
              /\ PassLen(fns) = 0 => l.out = "AssertionError"
        /\ (pc = "ended" /\ scan.limit # <<0>>) =>
              /\ PassLen(fns) > 0
              /\ \A k \in 1..PassLen(fns) : SameIdxAt(fns, k)
        /\ pc = "raised" => scan.out = "AssertionError"

\* the iterator raised when pulled for its second or a later joined step of
\* the first pass, its streams agreeing before that step and not at it
C29_Witness ==
    /\ pc = "raised"
    /\ scan.ai.inp = 0 /\ scan.ai.k >= 2
    /\ scan.ai.k <= PassLen(scan.ai.fns)
    /\ ~SameIdxAt(scan.ai.fns, scan.ai.k)
    /\ Len(scan.steps) = scan.ai.k - 1

(***************************************************************************)
(* Two runs of one pipeline: pline is ticked stage by stage, twin a whole  *)
(* tick at a time, neither more than one tick ahead of the other.          *)
(***************************************************************************)
InitTwin ==
    /\ \E pipe \in Pipelines, e \in BOOLEAN, l \in Limits :
          /\ BuildErrs(pipe) = {None}
          /\ pline = Build(pipe, e, l)
          /\ twin = Build(pipe, e, l)
    /\ pc = "idle"
    /\ todo = <<>>
    /\ scan = None

\* both runs get the same weights and the same seed, before their first tick
SetupBoth ==
    /\ pc = "idle" /\ pline.nticks = 0 /\ twin.nticks = 0
    /\ pline.err = None /\ twin.err = None
    /\ \E kinds \in [DOMAIN pline.stages -> WeightKinds], kind \in SeedKinds :
          LET cnfs == [i \in DOMAIN pline.stages |->
                          Matrix(XbarRows(pline, pline.stages[i]),
                                 XbarCols(pline, pline.stages[i]), kinds[i])]
          IN  /\ pline' = seed(configure(pline, cnfs, 1), kind)
              /\ twin' = seed(configure(twin, cnfs, 1), kind)
    /\ UNCHANGED <<pc, todo, scan>>

TwinBegin == pline.nticks <= twin.nticks /\ TickBegin

\* a tick() of the second run
TwinTick ==
    /\ twin.err = None
    /\ twin.stage_ticks # <<>>
    /\ ~Capped(twin)
    /\ twin.nticks < MaxTicks
    /\ twin.nticks <= pline.nticks
    /\ twin' = tick(twin, twin.stage_ticks)
    /\ UNCHANGED <<pline, pc, todo, scan>>

NextTwin == SetupBoth \/ TwinBegin \/ StageTick \/ Flush \/ TickStop \/ TwinTick

SpecTwin == InitTwin /\ [][NextTwin]_vars

\* the first run is between ticks, or has raised
Settled == pc \in {"idle", "stopped"} \/ pline.err # None

InitDry ==
    /\ \E pipe \in Pipelines, l \in Limits :
          /\ BuildErrs(pipe) = {None}
          /\ pline = Build(pipe, FALSE, l)
          /\ twin = Build(pipe, TRUE, l)
    /\ pc = "idle"
    /\ todo = <<>>
    /\ scan = None

\* every core of p has a crossbar matrix
Configured(p) == \A s \in DOMAIN p.core : p.core[s].xbar_m # Nil

\* the execute-mode run gets its weights and both runs the same seed,
\* before their first tick
SetupDry ==
    /\ pc = "idle" /\ pline.nticks = 0 /\ twin.nticks = 0
    /\ pline.err = None /\ twin.err = None
    /\ ~Configured(twin)
    /\ \E kinds \in [DOMAIN twin.stages -> WeightKinds], kind \in SeedKinds :
          LET cnfs == [i \in DOMAIN twin.stages |->
                          Matrix(XbarRows(twin, twin.stages[i]),
                                 XbarCols(twin, twin.stages[i]), kinds[i])]
          IN  /\ pline' = seed(pline, kind)
              /\ twin' = seed(configure(twin, cnfs, 1), kind)
    /\ UNCHANGED <<pc, todo, scan>>

NextDry == SetupDry \/ TwinBegin \/ StageTick \/ Flush \/ TickStop \/ TwinTick

SpecDry == InitDry /\ [][NextDry]_vars

\* the (object, index) write events of the last flush of p
WriteEvents(p) == [i \in DOMAIN p.flushed |-> <<p.flushed[i][1], p.flushed[i][2]>>]

\* C33 as claimed: next to a configured execute-mode run that has raised
\* nothing, the validate-mode run of the same pipeline with the same pass
\* limit has raised nothing in the ticks the other has completed, and after
\* the same number of ticks the two have the same tick result, the same
\* executed iterations, the same live stages and the same sequence of
\* (object, index) write events in the flush of that tick
C33_ValidateIsDryRun ==
    (Settled /\ Configured(twin) /\ twin.err = None) =>
        /\ twin.nticks > pline.nticks => pline.err = None
        /\ (pline.err = None /\ pline.nticks = twin.nticks) =>
              /\ pline.ret = twin.ret
              /\ pline.hist = twin.hist
              /\ pline.stage_ticks = twin.stage_ticks
              /\ WriteEvents(pline) = WriteEvents(twin)

=============================================================================
